---- MODULE Spec2Model ----
(***************************************************************************)
(* Model of updati's concurrent repository-update pipeline:                *)
(*   - worker.Pool.Process / Pool.worker   (fan-out / fan-in over channels) *)
(*   - updater.Updater.Update and its helpers (one repository's pipeline)   *)
(* Spec explores the worker pool; SpecUpdate explores one repository's pass *)
(* through Pool.worker and Updater.Update command by command.               *)
(***************************************************************************)
EXTENDS Integers, Sequences, FiniteSets, TLC

\* ------------------------------------------------------------------ bounds
MaxRepos == 2
MaxWorkers == 2

\* ------------------------------------------------------- values and records
NoError == "nil"
NoRepo == 0

\* config.DefaultConfig().PRBranch
PRBranch == "updati/dependencies"

\* updater.Result
Result(repo, success, updated, err, prNumber, prURL, branch, changedFiles) ==
    [Repository |-> repo, Success |-> success, Updated |-> updated, Error |-> err,
     PRNumber |-> prNumber, PRURL |-> prURL, Branch |-> branch,
     ChangedFiles |-> changedFiles]

\* The zero value &updater.Result{Repository: repo}
NewResult(repo) == Result(repo, FALSE, FALSE, NoError, 0, "", "", <<>>)

\* What the environment does to one repository during a pool run: the
\* outcome of dependency detection and the Result that Updater.Update
\* returns for it.  Repository is filled in by the worker.
Fate(detectErr, hasComposer, hasNPM, upd) ==
    [detectErr |-> detectErr, HasComposer |-> hasComposer, HasNPM |-> hasNPM,
     update |-> upd]

FateDetectErr == Fate(TRUE, FALSE, FALSE, NewResult(NoRepo))
FateNoManagers == Fate(FALSE, FALSE, FALSE, NewResult(NoRepo))
FateCloneFail ==
    Fate(FALSE, TRUE, FALSE,
         Result(NoRepo, FALSE, FALSE, "failed to clone repository", 0, "", "", <<>>))
FateUpdated ==
    Fate(FALSE, TRUE, FALSE,
         Result(NoRepo, TRUE, TRUE, NoError, 7, "https://pr/7", PRBranch,
                <<"composer.lock">>))

Fates == {FateDetectErr, FateNoManagers, FateCloneFail, FateUpdated}

\* An in-flight Update whose subprocesses are killed by the cancelled context
KilledResult ==
    Result(NoRepo, FALSE, FALSE, "failed to clone repository", 0, "", "", <<>>)

\* worker.ProcessResult as Process initialises it
NewProcessResult(n) ==
    [Total |-> n, Successful |-> 0, Updated |-> 0, Failed |-> 0, Skipped |-> 0,
     Results |-> <<>>]

\* Variant of Collect: the counters are updated but the Outcome itself is
\* not appended to Results
Collect_NoAppend(agg, res) ==
    IF res.Error # NoError
    THEN [agg EXCEPT !.Failed = @ + 1]
    ELSE IF res.Updated
         THEN [agg EXCEPT !.Updated = @ + 1, !.Successful = @ + 1]
         ELSE [agg EXCEPT !.Skipped = @ + 1, !.Successful = @ + 1]

\* Variant of Collect: the `else` between the error branch and the Updated
\* test is missing, so a failed result is counted a second time
Collect_NoElse(agg, res) ==
    LET a == [agg EXCEPT !.Results = Append(@, res)]
        b == IF res.Error # NoError THEN [a EXCEPT !.Failed = @ + 1] ELSE a
    IN  IF res.Updated
        THEN [b EXCEPT !.Updated = @ + 1, !.Successful = @ + 1]
        ELSE [b EXCEPT !.Skipped = @ + 1, !.Successful = @ + 1]

\* Variant of Collect: an updated result is also counted as skipped
Collect_UpdatedAlsoSkipped(agg, res) ==
    LET a == [agg EXCEPT !.Results = Append(@, res)]
    IN  IF res.Error # NoError
        THEN [a EXCEPT !.Failed = @ + 1]
        ELSE IF res.Updated
             THEN [a EXCEPT !.Updated = @ + 1, !.Successful = @ + 1,
                            !.Skipped = @ + 1]
             ELSE [a EXCEPT !.Skipped = @ + 1, !.Successful = @ + 1]

\* Body of the collector loop of Pool.Process
Collect(agg, res) ==
    LET a == [agg EXCEPT !.Results = Append(@, res)]
    IN  IF res.Error # NoError
        THEN [a EXCEPT !.Failed = @ + 1]
        ELSE IF res.Updated
             THEN [a EXCEPT !.Updated = @ + 1, !.Successful = @ + 1]
             ELSE [a EXCEPT !.Skipped = @ + 1, !.Successful = @ + 1]


\* ------------------------------------------------- configuration, repository
\* config.Config, the fields the pipeline reads
Config(createPR, dryRun, updateComposer, updateNPM, baseBranch, labels) ==
    [CreatePR |-> createPR, DryRun |-> dryRun, UpdateComposer |-> updateComposer,
     UpdateNPM |-> updateNPM, BaseBranch |-> baseBranch, PRBranch |-> PRBranch,
     Labels |-> labels]

\* config.DefaultConfig
DefaultConfig == Config(TRUE, FALSE, TRUE, TRUE, "main", <<"dependencies", "automated">>)

\* github.Repository, the fields the pipeline reads
Repository(defaultRef, hasComposer, hasNPM) ==
    [DefaultRef |-> defaultRef, HasComposer |-> hasComposer, HasNPM |-> hasNPM]

\* One recorded external call: subprocess or hosting-API request
Call(op, a, b) == [op |-> op, a |-> a, b |-> b]

\* ------------------------------------------------------------ fingerprinting
\* A file of the working copy
Absent == [exists |-> FALSE, readable |-> TRUE, data |-> <<>>]
Unreadable == [exists |-> TRUE, readable |-> FALSE, data |-> <<>>]
FileOf(data) == [exists |-> TRUE, readable |-> TRUE, data |-> data]

min(a, b) == IF a < b THEN a ELSE b
max(a, b) == IF a > b THEN a ELSE b

\* fileHash: ("", err) when the file cannot be read, "empty" for an empty
\* file, else "%d-%x-%x" of the length, the first 10 and the last 10 bytes
fileHash(f) ==
    IF ~f.exists THEN [err |-> "ENOENT", hash |-> <<>>]
    ELSE IF ~f.readable THEN [err |-> "EACCES", hash |-> <<>>]
    ELSE LET data == f.data
         IN  IF Len(data) = 0
             THEN [err |-> NoError, hash |-> <<"empty">>]
             ELSE [err |-> NoError,
                   hash |-> <<Len(data),
                              SubSeq(data, 1, min(10, Len(data))),
                              SubSeq(data, max(0, Len(data) - 10) + 1, Len(data))>>]

\* Variant of Plugins: npm registered before Composer
Plugins_NpmFirst == <<"npm", "composer">>

\* ------------------------------------------------------------------- plugins
\* registry, as filled by init(): Register(&ComposerPlugin{}), Register(&NPMPlugin{})
Plugins == <<"composer", "npm">>

\* Plugin.Detect
PluginDetect(name, repo) ==
    IF name = "composer" THEN repo.HasComposer ELSE repo.HasNPM

\* the lockfile a plugin fingerprints
PluginLock(name) ==
    IF name = "composer" THEN "composer.lock" ELSE "package-lock.json"

\* Variant of isPluginEnabled: the configuration flags are not consulted
isPluginEnabled_Always(cfg, name) == TRUE

\* Updater.isPluginEnabled
isPluginEnabled(cfg, name) ==
    IF name = "composer" THEN cfg.UpdateComposer
    ELSE IF name = "npm" THEN cfg.UpdateNPM
    ELSE TRUE

\* Variant of PluginUpdate: the exit status of the update command is ignored
PluginUpdate_IgnoreExit(name, before, cmdOK, after) ==
    LET lock == PluginLock(name)
        original == fileHash(before)
        new == fileHash(after)
        run == <<Call(name \o " update", "", "")>>
    IN  IF original.err # NoError /\ original.err # "ENOENT"
        THEN [updated |-> FALSE, changedFiles |-> <<>>,
              err |-> "failed to hash " \o lock, calls |-> <<>>]
        ELSE IF new.err # NoError
        THEN IF new.err = "ENOENT"
             THEN [updated |-> FALSE, changedFiles |-> <<>>, err |-> NoError,
                   calls |-> run]
             ELSE [updated |-> FALSE, changedFiles |-> <<>>,
                   err |-> "failed to hash " \o lock \o " after update",
                   calls |-> run]
        ELSE IF original.hash # new.hash
        THEN [updated |-> TRUE, changedFiles |-> <<lock>>, err |-> NoError,
              calls |-> run]
        ELSE [updated |-> FALSE, changedFiles |-> <<>>, err |-> NoError,
              calls |-> run]

\* Variant of PluginUpdate: a lockfile that can be fingerprinted after the
\* command counts as changed, the two fingerprints are not compared
PluginUpdate_ChangedIfPresent(name, before, cmdOK, after) ==
    LET lock == PluginLock(name)
        original == fileHash(before)
        new == fileHash(after)
        run == <<Call(name \o " update", "", "")>>
    IN  IF original.err # NoError /\ original.err # "ENOENT"
        THEN [updated |-> FALSE, changedFiles |-> <<>>,
              err |-> "failed to hash " \o lock, calls |-> <<>>]
        ELSE IF ~cmdOK
        THEN [updated |-> FALSE, changedFiles |-> <<>>,
              err |-> name \o " update failed", calls |-> run]
        ELSE IF new.err # NoError
        THEN IF new.err = "ENOENT"
             THEN [updated |-> FALSE, changedFiles |-> <<>>, err |-> NoError,
                   calls |-> run]
             ELSE [updated |-> FALSE, changedFiles |-> <<>>,
                   err |-> "failed to hash " \o lock \o " after update",
                   calls |-> run]
        ELSE [updated |-> TRUE, changedFiles |-> <<lock>>, err |-> NoError,
              calls |-> run]

\* ComposerPlugin.Update / NPMPlugin.Update on a lockfile that is `before`
\* when the plugin starts; the update command exits zero iff cmdOK and
\* leaves the lockfile as `after`.
PluginUpdate(name, before, cmdOK, after) ==
    LET lock == PluginLock(name)
        original == fileHash(before)
        new == fileHash(after)
        run == <<Call(name \o " update", "", "")>>
    IN  IF original.err # NoError /\ original.err # "ENOENT"
        THEN [updated |-> FALSE, changedFiles |-> <<>>,
              err |-> "failed to hash " \o lock, calls |-> <<>>]
        ELSE IF ~cmdOK
        THEN [updated |-> FALSE, changedFiles |-> <<>>,
              err |-> name \o " update failed", calls |-> run]
        ELSE IF new.err # NoError
        THEN IF new.err = "ENOENT"
             THEN [updated |-> FALSE, changedFiles |-> <<>>, err |-> NoError,
                   calls |-> run]
             ELSE [updated |-> FALSE, changedFiles |-> <<>>,
                   err |-> "failed to hash " \o lock \o " after update",
                   calls |-> run]
        ELSE IF original.hash # new.hash
        THEN [updated |-> TRUE, changedFiles |-> <<lock>>, err |-> NoError,
              calls |-> run]
        ELSE [updated |-> FALSE, changedFiles |-> <<>>, err |-> NoError,
              calls |-> run]

\* --------------------------------------------------------- Updater helpers
\* Variant of determineTargetBranch: the configured base branch is not
\* consulted in direct-push mode
determineTargetBranch_DefaultOnly(cfg, repo) ==
    IF cfg.CreatePR THEN cfg.PRBranch ELSE repo.DefaultRef

\* Updater.determineTargetBranch
determineTargetBranch(cfg, repo) ==
    IF cfg.CreatePR THEN cfg.PRBranch
    ELSE IF cfg.BaseBranch # "" THEN cfg.BaseBranch
    ELSE repo.DefaultRef

\* Outcomes of the git commands of commitAndPush
GitEnvs ==
    [configEmail : BOOLEAN, configName : BOOLEAN, add : BOOLEAN,
     statusEmpty : BOOLEAN, commit : {"ok", "nothing to commit", "fail"},
     push : BOOLEAN]

\* Updater.commitAndPush: the error it returns, the commands it ran and
\* whether the force-push reached the remote
commitAndPush(e, branchName) ==
    LET c1 == <<Call("git config", "user.email", "")>>
        c2 == Append(c1, Call("git config", "user.name", ""))
        c3 == Append(c2, Call("git add", "-A", ""))
        c4 == Append(c3, Call("git status", "--porcelain", ""))
        c5 == Append(c4, Call("git commit", "", ""))
        c6 == Append(c5, Call("git push", "-f", branchName))
    IN  IF ~e.configEmail
        THEN [err |-> "git config failed", calls |-> c1, pushed |-> FALSE]
        ELSE IF ~e.configName
        THEN [err |-> "git config failed", calls |-> c2, pushed |-> FALSE]
        ELSE IF ~e.add
        THEN [err |-> "git add failed", calls |-> c3, pushed |-> FALSE]
        ELSE IF e.statusEmpty
        THEN [err |-> NoError, calls |-> c4, pushed |-> FALSE]
        ELSE IF e.commit = "nothing to commit"
        THEN [err |-> NoError, calls |-> c5, pushed |-> FALSE]
        ELSE IF e.commit = "fail"
        THEN [err |-> "git commit failed", calls |-> c5, pushed |-> FALSE]
        ELSE IF ~e.push
        THEN [err |-> "git push failed", calls |-> c6, pushed |-> FALSE]
        ELSE [err |-> NoError, calls |-> c6, pushed |-> TRUE]

\* A pull request on the hosting service
PullRequest(number, head, base, title) ==
    [Number |-> number, HTMLURL |-> "https://pr/" \o ToString(number),
     Head |-> head, Base |-> base, Title |-> title]

NoPR == PullRequest(0, "", "", "")

\* config.DefaultConfig().PRTitle
PRTitle == "Update dependencies"

\* Outcomes of the hosting-API requests of CreatePullRequest
APIEnvs == [list : BOOLEAN, edit : BOOLEAN, create : BOOLEAN, labels : BOOLEAN]

\* Variant of CreatePullRequest: no reconciliation, a pull request is
\* created on every call
CreatePullRequest_AlwaysCreate(open, e, title, head, base, labels) ==
    LET number == 1 + Cardinality(open)
        created == PullRequest(number, head, base, title)
        cCreate == <<Call("PullRequests.Create", head, base)>>
        cLabels == Append(cCreate, Call("Issues.AddLabelsToIssue", ToString(number), ""))
    IN  IF ~e.create
        THEN [err |-> "failed to create pull request", pr |-> NoPR,
              calls |-> cCreate, open |-> open, warn |-> NoError]
        ELSE [err |-> NoError, pr |-> created,
              calls |-> IF Len(labels) > 0 THEN cLabels ELSE cCreate,
              open |-> open \cup {created},
              warn |-> IF Len(labels) > 0 /\ ~e.labels
                       THEN "failed to add labels" ELSE NoError]

\* Variant of CreatePullRequest: a failure to attach the labels is returned
\* as the error of the call
CreatePullRequest_LabelsFatal(open, e, title, head, base, labels) ==
    LET cList == <<Call("PullRequests.List", head, base)>>
        prs == {pr \in open : pr.Head = head /\ pr.Base = base}
        first == CHOOSE pr \in prs : \A q \in prs : pr.Number <= q.Number
        edited == [first EXCEPT !.Title = title]
        number == 1 + Cardinality(open)
        created == PullRequest(number, head, base, title)
        cEdit == Append(cList, Call("PullRequests.Edit", ToString(first.Number), ""))
        cCreate == Append(cList, Call("PullRequests.Create", head, base))
        cLabels == Append(cCreate, Call("Issues.AddLabelsToIssue", ToString(number), ""))
    IN  IF ~e.list
        THEN [err |-> "failed to list existing PRs", pr |-> NoPR,
              calls |-> cList, open |-> open, warn |-> NoError]
        ELSE IF prs # {}
        THEN IF ~e.edit
             THEN [err |-> "failed to update existing PR", pr |-> NoPR,
                   calls |-> cEdit, open |-> open, warn |-> NoError]
             ELSE [err |-> NoError, pr |-> edited, calls |-> cEdit,
                   open |-> (open \ {first}) \cup {edited}, warn |-> NoError]
        ELSE IF ~e.create
        THEN [err |-> "failed to create pull request", pr |-> NoPR,
              calls |-> cCreate, open |-> open, warn |-> NoError]
        ELSE IF Len(labels) > 0 /\ ~e.labels
        THEN [err |-> "failed to add labels", pr |-> NoPR,
              calls |-> cLabels, open |-> open \cup {created}, warn |-> NoError]
        ELSE [err |-> NoError, pr |-> created,
              calls |-> IF Len(labels) > 0 THEN cLabels ELSE cCreate,
              open |-> open \cup {created}, warn |-> NoError]

\* Client.CreatePullRequest against the open pull requests `open` of the
\* repository: error, pull request returned, requests made, open pull
\* requests afterwards, warning printed
CreatePullRequest(open, e, title, head, base, labels) ==
    LET cList == <<Call("PullRequests.List", head, base)>>
        prs == {pr \in open : pr.Head = head /\ pr.Base = base}
        first == CHOOSE pr \in prs : \A q \in prs : pr.Number <= q.Number
        edited == [first EXCEPT !.Title = title]
        number == 1 + Cardinality(open)
        created == PullRequest(number, head, base, title)
        cEdit == Append(cList, Call("PullRequests.Edit", ToString(first.Number), ""))
        cCreate == Append(cList, Call("PullRequests.Create", head, base))
        cLabels == Append(cCreate, Call("Issues.AddLabelsToIssue", ToString(number), ""))
    IN  IF ~e.list
        THEN [err |-> "failed to list existing PRs", pr |-> NoPR,
              calls |-> cList, open |-> open, warn |-> NoError]
        ELSE IF prs # {}
        THEN IF ~e.edit
             THEN [err |-> "failed to update existing PR", pr |-> NoPR,
                   calls |-> cEdit, open |-> open, warn |-> NoError]
             ELSE [err |-> NoError, pr |-> edited, calls |-> cEdit,
                   open |-> (open \ {first}) \cup {edited}, warn |-> NoError]
        ELSE IF ~e.create
        THEN [err |-> "failed to create pull request", pr |-> NoPR,
              calls |-> cCreate, open |-> open, warn |-> NoError]
        ELSE [err |-> NoError, pr |-> created,
              calls |-> IF Len(labels) > 0 THEN cLabels ELSE cCreate,
              open |-> open \cup {created},
              warn |-> IF Len(labels) > 0 /\ ~e.labels
                       THEN "failed to add labels" ELSE NoError]

\* Pool.worker between the context check and the call of Update: the result
\* it sends itself, if any, for a detection outcome d
WorkerPrecheck(r, d) ==
    IF d.err
    THEN [send |-> TRUE,
          res |-> [NewResult(r) EXCEPT !.Error = "failed to detect dependencies"]]
    ELSE IF ~d.HasComposer /\ ~d.HasNPM
    THEN [send |-> TRUE,
          res |-> [NewResult(r) EXCEPT !.Success = TRUE, !.Updated = FALSE]]
    ELSE [send |-> FALSE, res |-> NewResult(r)]

\* ---------------------------------------------------------------- variables
VARIABLES
    repos,        \* Process argument: the input list (repository ids)
    workers,      \* Pool.workers
    fate,         \* per repository: what detection and Update will yield
    cancelled,    \* ctx.Done() is closed
    repoChan,     \* buffered channel of repositories
    repoClosed,   \* close(repoChan) happened
    resultChan,   \* buffered channel of results
    resultClosed, \* close(resultChan) happened
    dpc,          \* dispatcher goroutine: "run", "closed", "returned"
    di,           \* dispatcher loop index into repos
    wpc,          \* per worker: "recv", "check", "update", "exit"
    cur,          \* per worker: repository in hand
    wg,           \* sync.WaitGroup counter
    mpc,          \* Process itself: "collect", "done"
    result,       \* the *ProcessResult being built
    handed,       \* history: how many times each repository was dequeued
    late,         \* history: repositories dequeued with the context cancelled
    started,      \* history: repositories whose processing started
    emitted       \* history: results sent by workers, in send order

poolVars == <<repos, workers, fate, cancelled, repoChan, repoClosed, resultChan,
              resultClosed, dpc, di, wpc, cur, wg, mpc, result,
              handed, late, started, emitted>>

VARIABLES
    cfg,             \* Updater.cfg
    repo,            \* the *gh.Repository being processed
    upc,             \* position in Pool.worker / Updater.Update for it
    ures,            \* Update's result
    tmpDir,          \* the working copy: "none", "present", "removed"
    wc,              \* lockfiles of the working copy
    pidx,            \* runPlugins: index into the registry
    anyUpdated,      \* runPlugins: anyUpdated
    allChangedFiles, \* runPlugins: allChangedFiles
    openPRs,         \* remote: open pull requests of the repository
    pushed,          \* remote: branches force-pushed by this run
    uagg,            \* the ProcessResult this repository is collected into
    calls,           \* history: external calls made, in order
    pluginRuns,      \* history: plugin Update calls: plugin, whether its
                     \* command was run, whether that exited zero,
                     \* whether it left the lockfile byte-identical,
                     \* whether the plugin reported a change
    failed,          \* history: external steps of this run that failed
    run              \* number of the run of the tool

updVars == <<cfg, repo, upc, ures, tmpDir, wc, pidx, anyUpdated,
             allChangedFiles, openPRs, pushed, uagg, calls, pluginRuns,
             failed, run>>

VARIABLES
    hin,             \* Plugin.Update in isolation: plugin, lockfile before
                     \* and after the command, exit status of the command
    hout             \* its two fingerprints and its return values, once called

hashVars == <<hin, hout>>

VARIABLES
    pin,             \* detectPHPVersion in isolation: what ReadFile and
                     \* json.Unmarshal make of composer.json
    pout             \* the interpreter it returned, once called

phpVars == <<pin, pout>>

VARIABLES
    lkind,           \* ListRepositories: how the server treats the owner:
                     \* "user", "org" (user listing rejected), "none"
    ln,              \* number of repositories of the owner
    lpc,             \* position: "idle", "user", "org", "append", "returned"
    optsPage,        \* opts.Page
    lbranch,         \* which listing produced the page in hand
    lrepos,          \* repos: what is left of the page in hand
    lnext,           \* resp.NextPage
    allRepos,        \* allRepos: how often each repository was appended
    lerr             \* the error returned

listVars == <<lkind, ln, lpc, optsPage, lbranch, lrepos, lnext, allRepos, lerr>>

VARIABLES
    rpc,             \* Runner.Run: "idle", "list", "process", "returned"
    rmatched,        \* len(matchedRepos)
    rerr             \* the error Run returned

runVars == <<rpc, rmatched, rerr>>

auxVars == <<phpVars, listVars, runVars>>

vars == <<poolVars, updVars, hashVars, auxVars>>

Locks == {"composer.lock", "package-lock.json"}

\* No repository is in the detailed pipeline (pool exploration)
UpdateIdle ==
    /\ cfg = DefaultConfig
    /\ repo = Repository("main", FALSE, FALSE)
    /\ upc = "idle"
    /\ ures = NewResult(NoRepo)
    /\ tmpDir = "none"
    /\ wc = [l \in Locks |-> Absent]
    /\ pidx = 1
    /\ anyUpdated = FALSE
    /\ allChangedFiles = <<>>
    /\ openPRs = {}
    /\ pushed = {}
    /\ uagg = NewProcessResult(0)
    /\ calls = <<>>
    /\ pluginRuns = <<>>
    /\ failed = <<>>
    /\ run = 1

\* Plugin.Update is not under study in isolation
HashIdle ==
    /\ hin = [name |-> "composer", before |-> Absent, after |-> Absent,
              cmdOK |-> TRUE]
    /\ hout = <<>>

\* detectPHPVersion is not under study in isolation
PHPIdle ==
    /\ pin = [kind |-> "unreadable", php |-> <<>>]
    /\ pout = <<>>

\* ListRepositories is not under study
ListIdle ==
    /\ lkind = "none"
    /\ ln = 0
    /\ lpc = "idle"
    /\ optsPage = 0
    /\ lbranch = "user"
    /\ lrepos = <<>>
    /\ lnext = 0
    /\ allRepos = <<>>
    /\ lerr = NoError

\* Runner.Run is not under study
RunIdle ==
    /\ rpc = "idle"
    /\ rmatched = 0
    /\ rerr = NoError

AuxIdle == PHPIdle /\ ListIdle /\ RunIdle

\* No pool is running (single-repository exploration)
PoolIdle ==
    /\ repos = <<>>
    /\ workers = 1
    /\ fate = <<>>
    /\ cancelled = FALSE
    /\ repoChan = <<>>
    /\ repoClosed = FALSE
    /\ resultChan = <<>>
    /\ resultClosed = FALSE
    /\ dpc = "idle"
    /\ di = 1
    /\ wpc = <<"idle">>
    /\ cur = <<NoRepo>>
    /\ wg = 0
    /\ mpc = "idle"
    /\ result = NewProcessResult(0)
    /\ handed = <<>>
    /\ late = {}
    /\ started = {}
    /\ emitted = <<>>

Workers == 1..workers

\* Variant of Cap: channels one slot shorter than the input list
Cap_OneLess == Len(repos) - 1

Cap == Len(repos)

\* --------------------------------------------------------------------- Init
\* State of Pool.Process once result, both channels, the W workers, the
\* dispatcher and the closer exist and none of the goroutines has run yet.
Init ==
    /\ \E n \in 0..MaxRepos : repos = [i \in 1..n |-> i]
    /\ workers \in 1..MaxWorkers
    /\ fate \in [1..Len(repos) -> Fates]
    /\ cancelled = FALSE
    /\ repoChan = <<>>
    /\ repoClosed = FALSE
    /\ resultChan = <<>>
    /\ resultClosed = FALSE
    /\ dpc = "run"
    /\ di = 1
    /\ wpc = [w \in 1..workers |-> "recv"]
    /\ cur = [w \in 1..workers |-> NoRepo]
    /\ wg = workers
    /\ mpc = "collect"
    /\ result = NewProcessResult(Len(repos))
    /\ handed = [i \in 1..Len(repos) |-> 0]
    /\ late = {}
    /\ started = {}
    /\ emitted = <<>>
    /\ UpdateIdle
    /\ HashIdle
    /\ AuxIdle

\* ------------------------------------------------------------------ actions
\* The operator's interrupt: handleSignals calls cancel()
Cancel ==
    /\ ~cancelled
    /\ cancelled' = TRUE
    /\ UNCHANGED <<repos, workers, fate, repoChan, repoClosed, resultChan,
                   resultClosed, dpc, di, wpc, cur, wg, mpc, result,
                   handed, late, started, emitted>>
    /\ UNCHANGED <<updVars, hashVars, auxVars>>

\* Dispatcher, select case `repoChan <- repo`
DispatchSend ==
    /\ dpc = "run"
    /\ di <= Len(repos)
    /\ Len(repoChan) < Cap
    /\ repoChan' = Append(repoChan, repos[di])
    /\ di' = di + 1
    /\ UNCHANGED <<repos, workers, fate, cancelled, repoClosed, resultChan,
                   resultClosed, dpc, wpc, cur, wg, mpc, result,
                   handed, late, started, emitted>>
    /\ UNCHANGED <<updVars, hashVars, auxVars>>

\* Dispatcher, select case `<-ctx.Done()`: return, skipping close(repoChan)
DispatchCancelled ==
    /\ dpc = "run"
    /\ di <= Len(repos)
    /\ cancelled
    /\ dpc' = "returned"
    /\ UNCHANGED <<repos, workers, fate, cancelled, repoChan, repoClosed,
                   resultChan, resultClosed, di, wpc, cur, wg, mpc, result,
                   handed, late, started, emitted>>
    /\ UNCHANGED <<updVars, hashVars, auxVars>>

\* Dispatcher, after the loop: close(repoChan)
DispatchClose ==
    /\ dpc = "run"
    /\ di > Len(repos)
    /\ repoClosed' = TRUE
    /\ dpc' = "closed"
    /\ UNCHANGED <<repos, workers, fate, cancelled, repoChan, resultChan,
                   resultClosed, di, wpc, cur, wg, mpc, result,
                   handed, late, started, emitted>>
    /\ UNCHANGED <<updVars, hashVars, auxVars>>

\* Variant of WorkerRecv: the repository is read but stays in the queue
WorkerRecv_Peek(w) ==
    /\ wpc[w] = "recv"
    /\ repoChan # <<>>
    /\ cur' = [cur EXCEPT ![w] = Head(repoChan)]
    /\ wpc' = [wpc EXCEPT ![w] = "check"]
    /\ handed' = [handed EXCEPT ![Head(repoChan)] = @ + 1]
    /\ late' = IF cancelled THEN late \cup {Head(repoChan)} ELSE late
    /\ UNCHANGED <<repos, workers, fate, cancelled, repoChan, repoClosed,
                   resultChan, resultClosed, dpc, di, wg, mpc, result,
                   started, emitted>>
    /\ UNCHANGED <<updVars, hashVars, auxVars>>

\* Worker, `for repo := range repos`: receive one repository
WorkerRecv(w) ==
    /\ wpc[w] = "recv"
    /\ repoChan # <<>>
    /\ cur' = [cur EXCEPT ![w] = Head(repoChan)]
    /\ repoChan' = Tail(repoChan)
    /\ wpc' = [wpc EXCEPT ![w] = "check"]
    /\ handed' = [handed EXCEPT ![Head(repoChan)] = @ + 1]
    /\ late' = IF cancelled THEN late \cup {Head(repoChan)} ELSE late
    /\ UNCHANGED <<repos, workers, fate, cancelled, repoClosed, resultChan,
                   resultClosed, dpc, di, wg, mpc, result, started, emitted>>
    /\ UNCHANGED <<updVars, hashVars, auxVars>>

\* Worker, `for repo := range repos` on a closed and drained channel: the
\* loop ends, worker returns, the deferred wg.Done() runs
WorkerRangeEnd(w) ==
    /\ wpc[w] = "recv"
    /\ repoChan = <<>>
    /\ repoClosed
    /\ wpc' = [wpc EXCEPT ![w] = "exit"]
    /\ wg' = wg - 1
    /\ UNCHANGED <<repos, workers, fate, cancelled, repoChan, repoClosed,
                   resultChan, resultClosed, dpc, di, cur, mpc, result,
                   handed, late, started, emitted>>
    /\ UNCHANGED <<updVars, hashVars, auxVars>>

\* client.DetectDependencies(ctx, repo): error, or the capability flags
DetectDependencies(r) ==
    [err |-> fate[r].detectErr,
     HasComposer |-> fate[r].HasComposer,
     HasNPM |-> fate[r].HasNPM]

\* Variant of WorkerCheck: the context is not consulted after the dequeue
WorkerCheck_NoCtx(w) ==
    /\ wpc[w] = "check"
    /\ LET pre == WorkerPrecheck(cur[w], DetectDependencies(cur[w]))
       IN  /\ started' = started \cup {cur[w]}
           /\ IF pre.send
              THEN /\ Len(resultChan) < Cap
                   /\ resultChan' = Append(resultChan, pre.res)
                   /\ emitted' = Append(emitted, pre.res)
                   /\ wpc' = [wpc EXCEPT ![w] = "recv"]
              ELSE /\ wpc' = [wpc EXCEPT ![w] = "update"]
                   /\ UNCHANGED <<resultChan, emitted>>
    /\ UNCHANGED <<repos, workers, fate, cancelled, repoChan, repoClosed,
                   resultClosed, dpc, di, cur, wg, mpc, result, handed, late>>
    /\ UNCHANGED <<updVars, hashVars, auxVars>>

\* Variant of WorkerCheck: a detection error makes the worker return
\* instead of recording the failure and continuing
WorkerCheck_ReturnOnDetectError(w) ==
    /\ wpc[w] = "check"
    /\ IF cancelled \/ DetectDependencies(cur[w]).err
       THEN /\ wpc' = [wpc EXCEPT ![w] = "exit"]
            /\ wg' = wg - 1
            /\ UNCHANGED <<started, resultChan, emitted>>
       ELSE LET pre == WorkerPrecheck(cur[w], DetectDependencies(cur[w]))
            IN  /\ started' = started \cup {cur[w]}
                /\ UNCHANGED wg
                /\ IF pre.send
                   THEN /\ Len(resultChan) < Cap
                        /\ resultChan' = Append(resultChan, pre.res)
                        /\ emitted' = Append(emitted, pre.res)
                        /\ wpc' = [wpc EXCEPT ![w] = "recv"]
                   ELSE /\ wpc' = [wpc EXCEPT ![w] = "update"]
                        /\ UNCHANGED <<resultChan, emitted>>
    /\ UNCHANGED <<repos, workers, fate, cancelled, repoChan, repoClosed,
                   resultClosed, dpc, di, cur, mpc, result, handed, late>>
    /\ UNCHANGED <<updVars, hashVars, auxVars>>

\* Worker, loop body up to the call of Update:
\* `select { case <-ctx.Done(): return; default: }`, then detection; a
\* detection error or a repository without a supported dependency manager
\* is answered with `results <- ...; continue`
WorkerCheck(w) ==
    /\ wpc[w] = "check"
    /\ IF cancelled
       THEN /\ wpc' = [wpc EXCEPT ![w] = "exit"]
            /\ wg' = wg - 1
            /\ UNCHANGED <<started, resultChan, emitted>>
       ELSE LET pre == WorkerPrecheck(cur[w], DetectDependencies(cur[w]))
            IN  /\ started' = started \cup {cur[w]}
                /\ UNCHANGED wg
                /\ IF pre.send
                   THEN /\ Len(resultChan) < Cap
                        /\ resultChan' = Append(resultChan, pre.res)
                        /\ emitted' = Append(emitted, pre.res)
                        /\ wpc' = [wpc EXCEPT ![w] = "recv"]
                   ELSE /\ wpc' = [wpc EXCEPT ![w] = "update"]
                        /\ UNCHANGED <<resultChan, emitted>>
    /\ UNCHANGED <<repos, workers, fate, cancelled, repoChan, repoClosed,
                   resultClosed, dpc, di, cur, mpc, result, handed, late>>
    /\ UNCHANGED <<updVars, hashVars, auxVars>>

\* Worker: p.updater.Update(ctx, repo) returns and `results <- result`
\* sends what it returned.  With the context cancelled the subprocesses
\* Update runs may have been killed.
WorkerUpdate(w) ==
    /\ wpc[w] = "update"
    /\ Len(resultChan) < Cap
    /\ \E res \in {fate[cur[w]].update} \cup
                  (IF cancelled THEN {KilledResult} ELSE {}) :
          /\ resultChan' = Append(resultChan, [res EXCEPT !.Repository = cur[w]])
          /\ emitted' = Append(emitted, [res EXCEPT !.Repository = cur[w]])
    /\ wpc' = [wpc EXCEPT ![w] = "recv"]
    /\ UNCHANGED <<repos, workers, fate, cancelled, repoChan, repoClosed,
                   resultClosed, dpc, di, cur, wg, mpc, result,
                   handed, late, started>>
    /\ UNCHANGED <<updVars, hashVars, auxVars>>

\* Variant of CloseResults: the result channel is closed without wg.Wait()
CloseResults_NoWait ==
    /\ ~resultClosed
    /\ resultClosed' = TRUE
    /\ UNCHANGED <<repos, workers, fate, cancelled, repoChan, repoClosed,
                   resultChan, dpc, di, wpc, cur, wg, mpc, result,
                   handed, late, started, emitted>>
    /\ UNCHANGED <<updVars, hashVars, auxVars>>

\* Closer goroutine: wg.Wait() returned, close(resultChan)
CloseResults ==
    /\ wg = 0
    /\ ~resultClosed
    /\ resultClosed' = TRUE
    /\ UNCHANGED <<repos, workers, fate, cancelled, repoChan, repoClosed,
                   resultChan, dpc, di, wpc, cur, wg, mpc, result,
                   handed, late, started, emitted>>
    /\ UNCHANGED <<updVars, hashVars, auxVars>>

\* Process: one iteration of `for res := range resultChan`
CollectOne ==
    /\ mpc = "collect"
    /\ resultChan # <<>>
    /\ result' = Collect(result, Head(resultChan))
    /\ resultChan' = Tail(resultChan)
    /\ UNCHANGED <<repos, workers, fate, cancelled, repoChan, repoClosed,
                   resultClosed, dpc, di, wpc, cur, wg, mpc,
                   handed, late, started, emitted>>
    /\ UNCHANGED <<updVars, hashVars, auxVars>>

\* Process: resultChan closed and drained, `return result`
ProcessReturn ==
    /\ mpc = "collect"
    /\ resultChan = <<>>
    /\ resultClosed
    /\ mpc' = "done"
    /\ UNCHANGED <<repos, workers, fate, cancelled, repoChan, repoClosed,
                   resultChan, resultClosed, dpc, di, wpc, cur, wg, result,
                   handed, late, started, emitted>>
    /\ UNCHANGED <<updVars, hashVars, auxVars>>

Next ==
    \/ Cancel
    \/ DispatchSend
    \/ DispatchCancelled
    \/ DispatchClose
    \/ \E w \in Workers : WorkerRecv(w)
    \/ \E w \in Workers : WorkerRangeEnd(w)
    \/ \E w \in Workers : WorkerCheck(w)
    \/ \E w \in Workers : WorkerUpdate(w)
    \/ CloseResults
    \/ CollectOne
    \/ ProcessReturn

Spec == Init /\ [][Next]_vars

\* Each goroutine that can take a step eventually takes one (Go's scheduler),
\* and every in-flight Update eventually returns.
WorkerStep(w) ==
    /\ w \in Workers
    /\ \/ WorkerRecv(w) \/ WorkerRangeEnd(w) \/ WorkerCheck(w)
       \/ WorkerUpdate(w)

Fairness ==
    /\ WF_vars(DispatchSend \/ DispatchCancelled \/ DispatchClose)
    /\ \A w \in 1..(MaxWorkers + 1) : WF_vars(WorkerStep(w))
    /\ WF_vars(CloseResults)
    /\ WF_vars(CollectOne \/ ProcessReturn)

FairSpec == Spec /\ Fairness

\* Process with a context that is never cancelled
NextNoCancel ==
    \/ DispatchSend
    \/ DispatchClose
    \/ \E w \in Workers : WorkerRecv(w)
    \/ \E w \in Workers : WorkerRangeEnd(w)
    \/ \E w \in Workers : WorkerCheck(w)
    \/ \E w \in Workers : WorkerUpdate(w)
    \/ CloseResults
    \/ CollectOne
    \/ ProcessReturn

\* Without cancellation every step moves Process forward, so it is enough
\* that the scheduler keeps running some goroutine that can take a step
\* (and that an in-flight Update returns)
FairSpecNoCancel == Init /\ [][NextNoCancel]_vars /\ WF_vars(NextNoCancel)


\* ======================================================================
\* One repository through Pool.worker and Updater.Update, call by call
\* ======================================================================
MaxLockLen == 1
MaxByte == 2
MaxRuns == 2

\* Lockfile states over short contents
FileContents ==
    {Absent, Unreadable} \cup
    {FileOf(d) : d \in UNION {[1..n -> 1..MaxByte] : n \in 0..MaxLockLen}}

\* A lockfile longer than the two samples fileHash takes, and the same
\* lockfile with one byte between the samples replaced
LongLock == [i \in 1..21 |-> 1]
LongLockMid == [LongLock EXCEPT ![11] = 2]

\* Lockfile states a clone or an update command can leave behind
LockStates ==
    {Absent, Unreadable, FileOf(<<>>), FileOf(LongLock), FileOf(LongLockMid)}

\* Working copies a clone can produce: a repository without the manifest
\* of a dependency manager has no lockfile of that manager either
Clones(r) ==
    {w \in [Locks -> LockStates] :
        \A k \in 1..Len(Plugins) :
            ~PluginDetect(Plugins[k], r) => w[PluginLock(Plugins[k])] = Absent}

Configs ==
    {Config(pr, dry, uc, un, base, labels) :
        pr \in BOOLEAN, dry \in BOOLEAN, uc \in BOOLEAN, un \in BOOLEAN,
        base \in {"", "develop"}, labels \in {<<>>, <<"dependencies">>}}

\* The worker has dequeued the repository and passed the context check;
\* the hosting service has either no open pull request for it or one left
\* by an earlier run.
InitUpdate ==
    /\ PoolIdle
    /\ HashIdle
    /\ AuxIdle
    /\ cfg \in Configs
    /\ repo = Repository("main", FALSE, FALSE)
    /\ upc = "detect"
    /\ ures = NewResult(1)
    /\ tmpDir = "none"
    /\ wc = [l \in Locks |-> Absent]
    /\ pidx = 1
    /\ anyUpdated = FALSE
    /\ allChangedFiles = <<>>
    /\ openPRs \in {{}, {PullRequest(1, PRBranch, "main", "old title")}}
    /\ pushed = {}
    /\ uagg = NewProcessResult(1)
    /\ calls = <<>>
    /\ pluginRuns = <<>>
    /\ failed = <<>>
    /\ run = 1

\* Pool.worker: DetectDependencies and the skip of repositories without a
\* supported dependency manager
Worker_Detect ==
    /\ upc = "detect"
    /\ \E d \in [err : BOOLEAN, HasComposer : BOOLEAN, HasNPM : BOOLEAN] :
          /\ d.err => (~d.HasComposer /\ ~d.HasNPM)
          /\ LET pre == WorkerPrecheck(1, d)
             IN  /\ repo' = [repo EXCEPT !.HasComposer = d.HasComposer,
                                         !.HasNPM = d.HasNPM]
                 /\ ures' = pre.res
                 /\ upc' = IF pre.send THEN "send" ELSE "mkdir"
                 /\ failed' = IF d.err THEN Append(failed, "DetectDependencies")
                              ELSE failed
    /\ calls' = Append(calls, Call("DetectDependencies", "", ""))
    /\ UNCHANGED <<cfg, tmpDir, wc, pidx, anyUpdated, allChangedFiles, openPRs,
                   pushed, uagg, pluginRuns, run>>
    /\ UNCHANGED <<poolVars, hashVars, auxVars>>

\* Updater.Update: os.MkdirTemp and `defer os.RemoveAll(tmpDir)`
Update_MkdirTemp ==
    /\ upc = "mkdir"
    /\ \E ok \in BOOLEAN :
          IF ok
          THEN /\ tmpDir' = "present"
               /\ upc' = "clone"
               /\ UNCHANGED <<ures, failed>>
          ELSE /\ ures' = [ures EXCEPT !.Error = "failed to create temp directory"]
               /\ upc' = "return"
               /\ failed' = Append(failed, "os.MkdirTemp")
               /\ UNCHANGED tmpDir
    /\ calls' = Append(calls, Call("os.MkdirTemp", "", ""))
    /\ UNCHANGED <<cfg, repo, wc, pidx, anyUpdated, allChangedFiles, openPRs,
                   pushed, uagg, pluginRuns, run>>
    /\ UNCHANGED <<poolVars, hashVars, auxVars>>

\* Variant of Update_cloneRepo: a failed clone is reported but the working
\* copy is used all the same
Update_cloneRepo_GoOn ==
    /\ upc = "clone"
    /\ \E ok \in BOOLEAN :
          IF ok
          THEN /\ wc' \in Clones(repo)
               /\ ures' = [ures EXCEPT !.Branch = determineTargetBranch(cfg, repo)]
               /\ upc' = IF cfg.CreatePR THEN "branch" ELSE "plugins"
               /\ UNCHANGED failed
          ELSE /\ ures' = [ures EXCEPT !.Error = "failed to clone repository"]
               /\ upc' = IF cfg.CreatePR THEN "branch" ELSE "plugins"
               /\ failed' = Append(failed, "git clone")
               /\ UNCHANGED wc
    /\ calls' = Append(calls, Call("git clone", "-b", repo.DefaultRef))
    /\ UNCHANGED <<cfg, repo, tmpDir, pidx, anyUpdated, allChangedFiles, openPRs,
                   pushed, uagg, pluginRuns, run>>
    /\ UNCHANGED <<poolVars, hashVars, auxVars>>

\* Updater.Update: cloneRepo, then determineTargetBranch
Update_cloneRepo ==
    /\ upc = "clone"
    /\ \E ok \in BOOLEAN :
          IF ok
          THEN /\ wc' \in Clones(repo)
               /\ ures' = [ures EXCEPT !.Branch = determineTargetBranch(cfg, repo)]
               /\ upc' = IF cfg.CreatePR THEN "branch" ELSE "plugins"
               /\ UNCHANGED failed
          ELSE /\ ures' = [ures EXCEPT !.Error = "failed to clone repository"]
               /\ upc' = "return"
               /\ failed' = Append(failed, "git clone")
               /\ UNCHANGED wc
    /\ calls' = Append(calls, Call("git clone", "-b", repo.DefaultRef))
    /\ UNCHANGED <<cfg, repo, tmpDir, pidx, anyUpdated, allChangedFiles, openPRs,
                   pushed, uagg, pluginRuns, run>>
    /\ UNCHANGED <<poolVars, hashVars, auxVars>>

\* Updater.Update: createBranch in pull-request mode
Update_createBranch ==
    /\ upc = "branch"
    /\ \E ok \in BOOLEAN :
          IF ok
          THEN /\ upc' = "plugins"
               /\ UNCHANGED <<ures, failed>>
          ELSE /\ ures' = [ures EXCEPT !.Error = "failed to create branch"]
               /\ upc' = "return"
               /\ failed' = Append(failed, "git checkout")
    /\ calls' = Append(calls, Call("git checkout", "-B", ures.Branch))
    /\ UNCHANGED <<cfg, repo, tmpDir, wc, pidx, anyUpdated, allChangedFiles,
                   openPRs, pushed, uagg, pluginRuns, run>>
    /\ UNCHANGED <<poolVars, hashVars, auxVars>>

\* Variant of runPlugins_Step: a failing plugin leaves the files changed by
\* the plugins before it in the result
runPlugins_Step_PartialCredit ==
    /\ upc = "plugins"
    /\ pidx <= Len(Plugins)
    /\ LET name == Plugins[pidx]
           lock == PluginLock(name)
       IN  IF ~isPluginEnabled(cfg, name) \/ ~PluginDetect(name, repo)
           THEN /\ pidx' = pidx + 1
                /\ UNCHANGED <<upc, ures, wc, anyUpdated, allChangedFiles, calls,
                               pluginRuns, failed>>
           ELSE \E cmdOK \in BOOLEAN, after \in LockStates :
                   LET r == PluginUpdate(name, wc[lock], cmdOK, after)
                   IN  \* what a failed command leaves behind is never read
                       /\ ~cmdOK => after = wc[lock]
                       /\ pluginRuns' = Append(pluginRuns,
                              [name |-> name, ran |-> r.calls # <<>>,
                               exitOK |-> cmdOK,
                               same |-> r.calls = <<>> \/ after = wc[lock],
                               updated |-> r.updated])
                       /\ calls' = calls \o r.calls
                       /\ wc' = IF r.calls # <<>>
                                THEN [wc EXCEPT ![lock] = after] ELSE wc
                       /\ IF r.err # NoError
                          THEN /\ ures' = [ures EXCEPT !.Error = name \o ": " \o r.err,
                                                       !.Updated = anyUpdated,
                                                       !.ChangedFiles = allChangedFiles]
                               /\ upc' = "return"
                               /\ failed' = Append(failed, r.err)
                               /\ UNCHANGED <<pidx, anyUpdated, allChangedFiles>>
                          ELSE /\ anyUpdated' = (anyUpdated \/ r.updated)
                               /\ allChangedFiles' =
                                     IF r.updated
                                     THEN allChangedFiles \o r.changedFiles
                                     ELSE allChangedFiles
                               /\ pidx' = pidx + 1
                               /\ UNCHANGED <<upc, ures, failed>>
    /\ UNCHANGED <<cfg, repo, tmpDir, openPRs, pushed, uagg, run>>
    /\ UNCHANGED <<poolVars, hashVars, auxVars>>

\* Updater.runPlugins: one iteration of the loop over Plugins()
runPlugins_Step ==
    /\ upc = "plugins"
    /\ pidx <= Len(Plugins)
    /\ LET name == Plugins[pidx]
           lock == PluginLock(name)
       IN  IF ~isPluginEnabled(cfg, name) \/ ~PluginDetect(name, repo)
           THEN /\ pidx' = pidx + 1
                /\ UNCHANGED <<upc, ures, wc, anyUpdated, allChangedFiles, calls,
                               pluginRuns, failed>>
           ELSE \E cmdOK \in BOOLEAN, after \in LockStates :
                   LET r == PluginUpdate(name, wc[lock], cmdOK, after)
                   IN  \* what a failed command leaves behind is never read
                       /\ ~cmdOK => after = wc[lock]
                       /\ pluginRuns' = Append(pluginRuns,
                              [name |-> name, ran |-> r.calls # <<>>,
                               exitOK |-> cmdOK,
                               same |-> r.calls = <<>> \/ after = wc[lock],
                               updated |-> r.updated])
                       /\ calls' = calls \o r.calls
                       /\ wc' = IF r.calls # <<>>
                                THEN [wc EXCEPT ![lock] = after] ELSE wc
                       /\ IF r.err # NoError
                          THEN /\ ures' = [ures EXCEPT !.Error = name \o ": " \o r.err]
                               /\ upc' = "return"
                               /\ failed' = Append(failed, r.err)
                               /\ UNCHANGED <<pidx, anyUpdated, allChangedFiles>>
                          ELSE /\ anyUpdated' = (anyUpdated \/ r.updated)
                               /\ allChangedFiles' =
                                     IF r.updated
                                     THEN allChangedFiles \o r.changedFiles
                                     ELSE allChangedFiles
                               /\ pidx' = pidx + 1
                               /\ UNCHANGED <<upc, ures, failed>>
    /\ UNCHANGED <<cfg, repo, tmpDir, openPRs, pushed, uagg, run>>
    /\ UNCHANGED <<poolVars, hashVars, auxVars>>

\* Updater.Update: runPlugins returned without error; the "nothing changed"
\* and dry-run exits
Update_AfterPlugins ==
    /\ upc = "plugins"
    /\ pidx > Len(Plugins)
    /\ IF ~anyUpdated
       THEN /\ ures' = [ures EXCEPT !.ChangedFiles = allChangedFiles,
                                    !.Success = TRUE, !.Updated = FALSE]
            /\ upc' = "return"
       ELSE IF cfg.DryRun
       THEN /\ ures' = [ures EXCEPT !.ChangedFiles = allChangedFiles,
                                    !.Success = TRUE, !.Updated = TRUE]
            /\ upc' = "return"
       ELSE /\ ures' = [ures EXCEPT !.ChangedFiles = allChangedFiles]
            /\ upc' = "commit"
    /\ UNCHANGED <<cfg, repo, tmpDir, wc, pidx, anyUpdated, allChangedFiles,
                   openPRs, pushed, uagg, calls, pluginRuns, failed, run>>
    /\ UNCHANGED <<poolVars, hashVars, auxVars>>

\* Variant of Update_commitAndPush: pull-request reconciliation follows the
\* push in direct-push mode too
Update_commitAndPush_AlwaysPR ==
    /\ upc = "commit"
    /\ \E e \in GitEnvs :
          LET r == commitAndPush(e, ures.Branch)
          IN  /\ calls' = calls \o r.calls
              /\ pushed' = IF r.pushed THEN pushed \cup {ures.Branch} ELSE pushed
              /\ IF r.err # NoError
                 THEN /\ ures' = [ures EXCEPT !.Error = "failed to commit and push"]
                      /\ upc' = "return"
                      /\ failed' = Append(failed, r.err)
                 ELSE /\ upc' = "pr"
                      /\ UNCHANGED <<ures, failed>>
    /\ UNCHANGED <<cfg, repo, tmpDir, wc, pidx, anyUpdated, allChangedFiles,
                   openPRs, uagg, pluginRuns, run>>
    /\ UNCHANGED <<poolVars, hashVars, auxVars>>

\* Updater.Update: commitAndPush, and the direct-push success exit
Update_commitAndPush ==
    /\ upc = "commit"
    /\ \E e \in GitEnvs :
          LET r == commitAndPush(e, ures.Branch)
          IN  /\ calls' = calls \o r.calls
              /\ pushed' = IF r.pushed THEN pushed \cup {ures.Branch} ELSE pushed
              /\ IF r.err # NoError
                 THEN /\ ures' = [ures EXCEPT !.Error = "failed to commit and push"]
                      /\ upc' = "return"
                      /\ failed' = Append(failed, r.err)
                 ELSE IF cfg.CreatePR
                 THEN /\ upc' = "pr"
                      /\ UNCHANGED <<ures, failed>>
                 ELSE /\ ures' = [ures EXCEPT !.Success = TRUE, !.Updated = TRUE]
                      /\ upc' = "return"
                      /\ UNCHANGED failed
    /\ UNCHANGED <<cfg, repo, tmpDir, wc, pidx, anyUpdated, allChangedFiles,
                   openPRs, uagg, pluginRuns, run>>
    /\ UNCHANGED <<poolVars, hashVars, auxVars>>

\* Variant of Update_CreatePullRequest: a failed reconciliation is reported
\* as an update all the same
Update_CreatePullRequest_SuccessAnyway ==
    /\ upc = "pr"
    /\ \E e \in APIEnvs :
          LET r == CreatePullRequest(openPRs, e, PRTitle, ures.Branch,
                                     repo.DefaultRef, cfg.Labels)
          IN  /\ calls' = calls \o r.calls
              /\ openPRs' = r.open
              /\ IF r.err # NoError
                 THEN /\ ures' = [ures EXCEPT !.Error = "failed to create pull request",
                                              !.Success = TRUE, !.Updated = TRUE]
                      /\ failed' = Append(failed, r.err)
                 ELSE /\ ures' = [ures EXCEPT !.PRNumber = r.pr.Number,
                                              !.PRURL = r.pr.HTMLURL,
                                              !.Success = TRUE, !.Updated = TRUE]
                      /\ failed' = IF r.warn # NoError
                                   THEN Append(failed, r.warn) ELSE failed
    /\ upc' = "return"
    /\ UNCHANGED <<cfg, repo, tmpDir, wc, pidx, anyUpdated, allChangedFiles,
                   pushed, uagg, pluginRuns, run>>
    /\ UNCHANGED <<poolVars, hashVars, auxVars>>

\* Variant of Update_CreatePullRequest: a failed reconciliation deletes the
\* branch it pushed
Update_CreatePullRequest_UndoPush ==
    /\ upc = "pr"
    /\ \E e \in APIEnvs :
          LET r == CreatePullRequest(openPRs, e, PRTitle, ures.Branch,
                                     repo.DefaultRef, cfg.Labels)
          IN  /\ calls' = IF r.err # NoError
                          THEN Append(calls \o r.calls,
                                      Call("git push", "--delete", ures.Branch))
                          ELSE calls \o r.calls
              /\ pushed' = IF r.err # NoError THEN pushed \ {ures.Branch}
                           ELSE pushed
              /\ openPRs' = r.open
              /\ IF r.err # NoError
                 THEN /\ ures' = [ures EXCEPT !.Error = "failed to create pull request"]
                      /\ failed' = Append(failed, r.err)
                 ELSE /\ ures' = [ures EXCEPT !.PRNumber = r.pr.Number,
                                              !.PRURL = r.pr.HTMLURL,
                                              !.Success = TRUE, !.Updated = TRUE]
                      /\ failed' = IF r.warn # NoError
                                   THEN Append(failed, r.warn) ELSE failed
    /\ upc' = "return"
    /\ UNCHANGED <<cfg, repo, tmpDir, wc, pidx, anyUpdated, allChangedFiles,
                   uagg, pluginRuns, run>>
    /\ UNCHANGED <<poolVars, hashVars, auxVars>>

\* Updater.Update: client.CreatePullRequest and the success exit
Update_CreatePullRequest ==
    /\ upc = "pr"
    /\ \E e \in APIEnvs :
          LET r == CreatePullRequest(openPRs, e, PRTitle, ures.Branch,
                                     repo.DefaultRef, cfg.Labels)
          IN  /\ calls' = calls \o r.calls
              /\ openPRs' = r.open
              /\ IF r.err # NoError
                 THEN /\ ures' = [ures EXCEPT !.Error = "failed to create pull request"]
                      /\ failed' = Append(failed, r.err)
                 ELSE /\ ures' = [ures EXCEPT !.PRNumber = r.pr.Number,
                                              !.PRURL = r.pr.HTMLURL,
                                              !.Success = TRUE, !.Updated = TRUE]
                      /\ failed' = IF r.warn # NoError
                                   THEN Append(failed, r.warn) ELSE failed
    /\ upc' = "return"
    /\ UNCHANGED <<cfg, repo, tmpDir, wc, pidx, anyUpdated, allChangedFiles,
                   pushed, uagg, pluginRuns, run>>
    /\ UNCHANGED <<poolVars, hashVars, auxVars>>

\* Variant of Update_Return: the working copy is removed at the end of the
\* success path only, not by a deferred call
Update_Return_CleanupOnSuccess ==
    /\ upc = "return"
    /\ IF tmpDir = "present" /\ ures.Error = NoError
       THEN /\ tmpDir' = "removed"
            /\ wc' = [l \in Locks |-> Absent]
            /\ calls' = Append(calls, Call("os.RemoveAll", "", ""))
       ELSE UNCHANGED <<tmpDir, wc, calls>>
    /\ upc' = "send"
    /\ UNCHANGED <<cfg, repo, ures, pidx, anyUpdated, allChangedFiles, openPRs,
                   pushed, uagg, pluginRuns, failed, run>>
    /\ UNCHANGED <<poolVars, hashVars, auxVars>>

\* Updater.Update returns: the deferred os.RemoveAll(tmpDir) runs if the
\* defer statement was reached
Update_Return ==
    /\ upc = "return"
    /\ IF tmpDir = "present"
       THEN /\ tmpDir' = "removed"
            /\ wc' = [l \in Locks |-> Absent]
            /\ calls' = Append(calls, Call("os.RemoveAll", "", ""))
       ELSE UNCHANGED <<tmpDir, wc, calls>>
    /\ upc' = "send"
    /\ UNCHANGED <<cfg, repo, ures, pidx, anyUpdated, allChangedFiles, openPRs,
                   pushed, uagg, pluginRuns, failed, run>>
    /\ UNCHANGED <<poolVars, hashVars, auxVars>>

\* Pool.worker sends the result and the collector loop of Process counts it
Worker_SendAndCollect ==
    /\ upc = "send"
    /\ uagg' = Collect(uagg, ures)
    /\ upc' = "collected"
    /\ UNCHANGED <<cfg, repo, ures, tmpDir, wc, pidx, anyUpdated, allChangedFiles,
                   openPRs, pushed, calls, pluginRuns, failed, run>>
    /\ UNCHANGED <<poolVars, hashVars, auxVars>>

\* Variant of Runner_NextRun: the change flag of runPlugins survives from
\* one run to the next
Runner_NextRun_KeepsFlag ==
    /\ upc = "collected"
    /\ run < MaxRuns
    /\ run' = run + 1
    /\ repo' = Repository("main", FALSE, FALSE)
    /\ upc' = "detect"
    /\ ures' = NewResult(1)
    /\ tmpDir' = "none"
    /\ wc' = [l \in Locks |-> Absent]
    /\ pidx' = 1
    /\ allChangedFiles' = <<>>
    /\ pushed' = {}
    /\ uagg' = NewProcessResult(1)
    /\ calls' = <<>>
    /\ pluginRuns' = <<>>
    /\ failed' = <<>>
    /\ UNCHANGED <<cfg, openPRs, anyUpdated>>
    /\ UNCHANGED <<poolVars, hashVars, auxVars>>

\* Runner.Run is invoked again (the next scheduled run): a new pool, updater
\* and result for the same repository and configuration; the hosting
\* service keeps its pull requests.
Runner_NextRun ==
    /\ upc = "collected"
    /\ run < MaxRuns
    /\ run' = run + 1
    /\ repo' = Repository("main", FALSE, FALSE)
    /\ upc' = "detect"
    /\ ures' = NewResult(1)
    /\ tmpDir' = "none"
    /\ wc' = [l \in Locks |-> Absent]
    /\ pidx' = 1
    /\ anyUpdated' = FALSE
    /\ allChangedFiles' = <<>>
    /\ pushed' = {}
    /\ uagg' = NewProcessResult(1)
    /\ calls' = <<>>
    /\ pluginRuns' = <<>>
    /\ failed' = <<>>
    /\ UNCHANGED <<cfg, openPRs>>
    /\ UNCHANGED <<poolVars, hashVars, auxVars>>

NextUpdate ==
    \/ Worker_Detect
    \/ Update_MkdirTemp
    \/ Update_cloneRepo
    \/ Update_createBranch
    \/ runPlugins_Step
    \/ Update_AfterPlugins
    \/ Update_commitAndPush
    \/ Update_CreatePullRequest
    \/ Update_Return
    \/ Worker_SendAndCollect
    \/ Runner_NextRun

SpecUpdate == InitUpdate /\ [][NextUpdate]_vars

\* ======================================================================
\* fileHash and Plugin.Update as functions of the lockfile before and after
\* ======================================================================
Zeros(n) == [i \in 1..n |-> 0]

ShortContents == UNION {[1..n -> 1..MaxByte] : n \in 0..MaxLockLen}

\* Contents of 20 bytes and more: both samples of fileHash are full and the
\* bytes of m lie between them
LongContents ==
    {<<p>> \o Zeros(9) \o m \o Zeros(9) \o <<s>> :
        p \in 1..MaxByte, s \in 1..MaxByte, m \in ShortContents}

HashFiles == FileContents \cup {FileOf(d) : d \in LongContents}

InitHash ==
    /\ PoolIdle
    /\ UpdateIdle
    /\ AuxIdle
    /\ hin \in [name : {Plugins[k] : k \in 1..Len(Plugins)},
                before : HashFiles, after : HashFiles, cmdOK : BOOLEAN]
    /\ hout = <<>>

\* One call of Plugin.Update, with the two fingerprints it takes
Plugin_Update ==
    /\ hout = <<>>
    /\ hout' = <<[original |-> fileHash(hin.before),
                  new |-> fileHash(hin.after),
                  res |-> PluginUpdate(hin.name, hin.before, hin.cmdOK,
                                       hin.after)]>>
    /\ UNCHANGED hin
    /\ UNCHANGED <<poolVars, updVars, auxVars>>

NextHash == Plugin_Update

SpecHash == InitHash /\ [][NextHash]_vars

\* ======================================================================
\* ComposerPlugin.detectPHPVersion: the interpreter chosen for a manifest
\* ======================================================================
\* strings.Contains over strings held as sequences of characters
Contains(s, substr) ==
    \E i \in 0..(Len(s) - Len(substr)) :
        SubSeq(s, i + 1, i + Len(substr)) = substr

\* strings.TrimSpace
RECURSIVE TrimSpace(_)
TrimSpace(s) ==
    IF s = <<>> THEN s
    ELSE IF Head(s) = " " THEN TrimSpace(Tail(s))
    ELSE IF s[Len(s)] = " " THEN TrimSpace(SubSeq(s, 1, Len(s) - 1))
    ELSE s

DefaultPHP == "/usr/bin/php"

selectPHPVersion(constraint) ==
    LET c == TrimSpace(constraint)
    IN  IF Contains(c, <<"8", ".", "4">>) THEN "/usr/bin/php84"
        ELSE IF Contains(c, <<"8", ".", "3">>) THEN "/usr/bin/php83"
        ELSE IF Contains(c, <<"8", ".", "2">>) THEN "/usr/bin/php82"
        ELSE IF Contains(c, <<"8", ".", "5">>) THEN "/usr/bin/php85"
        ELSE DefaultPHP

\* m.kind: "unreadable" (ReadFile failed), "invalid" (not JSON),
\* "norequire" (no require.php entry), "constraint" (m.php is its text)
detectPHPVersion(m) ==
    IF m.kind = "unreadable" THEN DefaultPHP
    ELSE IF m.kind = "invalid" THEN DefaultPHP
    ELSE IF m.kind = "norequire" THEN DefaultPHP
    ELSE selectPHPVersion(m.php)

\* Constraint texts: up to MaxTerms version terms (operator and version),
\* joined by one of the separators Composer accepts, possibly padded
MaxTerms == 2

ConstraintOps == {<<"^">>, <<">", "=">>}

ConstraintVersions ==
    {<<"7", ".", "4">>, <<"8">>, <<"8", ".", "2">>, <<"8", ".", "3">>,
     <<"8", ".", "4">>, <<"8", ".", "5">>}

ConstraintTerms == {o \o v : o \in ConstraintOps, v \in ConstraintVersions}

ConstraintSeps == {<<" ">>, <<" ", "|", "|", " ">>}

RECURSIVE ConstraintsOf(_)
ConstraintsOf(n) ==
    IF n = 1 THEN ConstraintTerms
    ELSE {c \o s \o t : c \in ConstraintsOf(n - 1), s \in ConstraintSeps,
                          t \in ConstraintTerms}

Constraints ==
    LET plain == UNION {ConstraintsOf(n) : n \in 1..MaxTerms}
    IN  {<<>>, <<"*">>} \cup plain \cup {<<" ">> \o c \o <<" ">> : c \in plain}

Manifests ==
    {[kind |-> k, php |-> <<>>] : k \in {"unreadable", "invalid", "norequire"}}
    \cup {[kind |-> "constraint", php |-> c] : c \in Constraints}

InitPHP ==
    /\ PoolIdle
    /\ UpdateIdle
    /\ HashIdle
    /\ ListIdle
    /\ RunIdle
    /\ pin \in Manifests
    /\ pout = <<>>

\* One call of detectPHPVersion
Composer_detectPHPVersion ==
    /\ pout = <<>>
    /\ pout' = <<detectPHPVersion(pin)>>
    /\ UNCHANGED pin
    /\ UNCHANGED <<poolVars, updVars, hashVars, listVars, runVars>>

NextPHP == Composer_detectPHPVersion

SpecPHP == InitPHP /\ [][NextPHP]_vars

\* ======================================================================
\* Client.ListRepositories: pagination and the organization fallback
\* ======================================================================
MaxListed == 5

\* ListOptions.PerPage, scaled down from 100
PerPage == 2

\* allRepos counts appends of a repository up to "more than once"
Many == 2

\* The server's answer for a page of the owner's n repositories; page 0 is
\* the first page
PageOf(n, page) ==
    LET p == max(page, 1)
        lo == (p - 1) * PerPage + 1
        hi == min(p * PerPage, n)
    IN  [i \in 1..max(hi - lo + 1, 0) |-> lo + i - 1]

NextPageOf(n, page) ==
    LET p == max(page, 1)
    IN  IF p * PerPage < n THEN p + 1 ELSE 0

InitList ==
    /\ PoolIdle
    /\ UpdateIdle
    /\ HashIdle
    /\ PHPIdle
    /\ RunIdle
    /\ lkind \in {"user", "org", "none"}
    /\ ln \in 0..MaxListed
    /\ lpc = "user"
    /\ optsPage = 0
    /\ lbranch = "user"
    /\ lrepos = <<>>
    /\ lnext = 0
    /\ allRepos = [r \in 1..ln |-> 0]
    /\ lerr = NoError

\* Repositories.ListByUser with opts; it is rejected for an owner that is
\* not a user and may fail for other reasons
List_ListByUser ==
    /\ lpc = "user"
    /\ \E ok \in BOOLEAN :
          /\ ok => lkind = "user"
          /\ IF ok
             THEN /\ lrepos' = PageOf(ln, optsPage)
                  /\ lnext' = NextPageOf(ln, optsPage)
                  /\ lbranch' = "user"
                  /\ lpc' = "append"
             ELSE /\ lpc' = "org"
                  /\ UNCHANGED <<lrepos, lnext, lbranch>>
    /\ UNCHANGED <<lkind, ln, optsPage, allRepos, lerr>>
    /\ UNCHANGED <<poolVars, updVars, hashVars, phpVars, runVars>>

\* The fallback: Repositories.ListByOrg with a new orgOpts (its Page is 0)
List_ListByOrg ==
    /\ lpc = "org"
    /\ \E ok \in BOOLEAN :
          /\ ok => lkind = "org"
          /\ IF ok
             THEN /\ lrepos' = PageOf(ln, 0)
                  /\ lnext' = NextPageOf(ln, 0)
                  /\ lbranch' = "org"
                  /\ lpc' = "append"
                  /\ UNCHANGED <<allRepos, lerr>>
             ELSE /\ lerr' = "failed to list repositories"
                  /\ allRepos' = [r \in 1..ln |-> 0]
                  /\ lrepos' = <<>>
                  /\ lpc' = "returned"
                  /\ UNCHANGED <<lnext, lbranch>>
    /\ UNCHANGED <<lkind, ln, optsPage>>
    /\ UNCHANGED <<poolVars, updVars, hashVars, phpVars, runVars>>

\* One iteration of `for _, repo := range repos`
List_Append ==
    /\ lpc = "append"
    /\ lrepos # <<>>
    /\ allRepos' = [allRepos EXCEPT ![Head(lrepos)] = min(@ + 1, Many)]
    /\ lrepos' = Tail(lrepos)
    /\ UNCHANGED <<lkind, ln, lpc, optsPage, lbranch, lnext, lerr>>
    /\ UNCHANGED <<poolVars, updVars, hashVars, phpVars, runVars>>

\* The test of resp.NextPage: break and return, or go round the loop; the
\* page stored in orgOpts is lost with orgOpts
List_NextPage ==
    /\ lpc = "append"
    /\ lrepos = <<>>
    /\ IF lnext = 0
       THEN /\ lpc' = "returned"
            /\ UNCHANGED optsPage
       ELSE /\ lpc' = "user"
            /\ optsPage' = IF lbranch = "user" THEN lnext ELSE optsPage
    /\ UNCHANGED <<lkind, ln, lbranch, lrepos, lnext, allRepos, lerr>>
    /\ UNCHANGED <<poolVars, updVars, hashVars, phpVars, runVars>>

NextList ==
    \/ List_ListByUser
    \/ List_ListByOrg
    \/ List_Append
    \/ List_NextPage

SpecList == InitList /\ [][NextList]_vars

\* ListRepositories runs on the caller's goroutine: it keeps taking steps
FairSpecList == SpecList /\ WF_vars(NextList)

\* ======================================================================
\* Runner.Run: listing, filtering, the pool, and the error it returns
\* ======================================================================
InitRunner ==
    /\ PoolIdle
    /\ UpdateIdle
    /\ HashIdle
    /\ PHPIdle
    /\ ListIdle
    /\ rpc = "list"
    /\ rmatched = 0
    /\ rerr = NoError

\* ListRepositories failed: Run returns its error
Runner_ListFailed ==
    /\ rpc = "list"
    /\ rpc' = "returned"
    /\ rerr' = "failed to list repositories"
    /\ UNCHANGED rmatched
    /\ UNCHANGED <<poolVars, updVars, hashVars, phpVars, listVars>>

\* ListRepositories succeeded and no listed repository matches the patterns
Runner_NoMatch ==
    /\ rpc = "list"
    /\ rpc' = "returned"
    /\ rmatched' = 0
    /\ rerr' = NoError
    /\ UNCHANGED <<poolVars, updVars, hashVars, phpVars, listVars>>

\* ListRepositories succeeded and n >= 1 repositories match: worker.New
\* and the entry of pool.Process, up to the start of its goroutines
Runner_Process ==
    /\ rpc = "list"
    /\ \E n \in 1..MaxRepos, w \in 1..MaxWorkers :
          /\ rmatched' = n
          /\ repos' = [i \in 1..n |-> i]
          /\ workers' = w
          /\ fate' \in [1..n -> Fates]
          /\ wpc' = [v \in 1..w |-> "recv"]
          /\ cur' = [v \in 1..w |-> NoRepo]
          /\ wg' = w
          /\ result' = NewProcessResult(n)
          /\ handed' = [i \in 1..n |-> 0]
    /\ cancelled' = FALSE
    /\ repoChan' = <<>>
    /\ repoClosed' = FALSE
    /\ resultChan' = <<>>
    /\ resultClosed' = FALSE
    /\ dpc' = "run"
    /\ di' = 1
    /\ mpc' = "collect"
    /\ late' = {}
    /\ started' = {}
    /\ emitted' = <<>>
    /\ rpc' = "process"
    /\ UNCHANGED rerr
    /\ UNCHANGED <<updVars, hashVars, phpVars, listVars>>

\* Variant of Runner_Return: a skipped repository fails the run too
Runner_Return_SkippedFails ==
    /\ rpc = "process"
    /\ mpc = "done"
    /\ rpc' = "returned"
    /\ rerr' = IF result.Failed + result.Skipped > 0
               THEN "repositories failed to update" ELSE NoError
    /\ UNCHANGED rmatched
    /\ UNCHANGED <<poolVars, updVars, hashVars, phpVars, listVars>>

\* pool.Process returned: the error of Run is decided by result.Failed
Runner_Return ==
    /\ rpc = "process"
    /\ mpc = "done"
    /\ rpc' = "returned"
    /\ rerr' = IF result.Failed > 0
               THEN "repositories failed to update" ELSE NoError
    /\ UNCHANGED rmatched
    /\ UNCHANGED <<poolVars, updVars, hashVars, phpVars, listVars>>

\* The goroutines of pool.Process, while Run waits for it
Runner_PoolStep ==
    /\ rpc = "process"
    /\ Next

NextRunner ==
    \/ Runner_ListFailed
    \/ Runner_NoMatch
    \/ Runner_Process
    \/ Runner_PoolStep
    \/ Runner_Return

SpecRunner == InitRunner /\ [][NextRunner]_vars

\* ------------------------------------------------------------ pool claims
Done == mpc = "done"

ResultsFor(r) == {k \in 1..Len(result.Results) : result.Results[k].Repository = r}

\* C1: without cancellation, when Process has returned, Total equals the
\* length of the input and Successful + Failed equals Total.
C1_TotalInvariant ==
    (Done /\ ~cancelled) =>
        /\ result.Total = Len(repos)
        /\ result.Successful + result.Failed = result.Total

C1_Witness ==
    /\ Done /\ ~cancelled
    /\ Len(repos) = 2
    /\ result.Failed = 1
    /\ result.Successful = 1

\* C2: without cancellation, the returned aggregate holds exactly one
\* Outcome for every input repository, failing repositories included, and
\* a worker that recorded a failure is back at the head of its loop.
C2_OneOutcomePerRepo ==
    /\ [](  (Done /\ ~cancelled) =>
              /\ Len(result.Results) = Len(repos)
              /\ \A r \in 1..Len(repos) : Cardinality(ResultsFor(r)) = 1)
    /\ [][\A w \in Workers :
             (~cancelled /\ wpc[w] \in {"check", "update"} /\ wpc'[w] # wpc[w])
                => wpc'[w] \in {"update", "recv"}]_vars

C2_Witness ==
    /\ Done /\ ~cancelled
    /\ workers = 1
    /\ Len(repos) = 2
    /\ result.Results[1].Error # NoError
    /\ result.Results[2].Error = NoError
    /\ result.Results[2].Repository = 2

\* C3: once the context is cancelled, Process eventually returns (and so
\* every worker has terminated), given fair scheduling of the goroutines.
C3_CancelLeadsToReturn == cancelled ~> Done

\* C4: a repository that was never dequeued, or was dequeued with the
\* context already cancelled, has no Outcome and no orchestration: every
\* Outcome belongs to a repository whose processing started before.
C4_OnlyStartedHaveOutcome ==
    /\ \A k \in 1..Len(emitted) :
          /\ emitted[k].Repository \in started
          /\ emitted[k].Repository \notin late
          /\ handed[emitted[k].Repository] > 0
    /\ \A k \in 1..Len(result.Results) :
          /\ result.Results[k].Repository \in started
          /\ result.Results[k].Repository \notin late
    /\ \A w \in Workers :
          wpc[w] = "update" => cur[w] \notin late
    /\ result.Failed + result.Successful <= Cardinality(started)

C4_Witness ==
    /\ Done /\ cancelled
    /\ late # {}
    /\ Len(repos) = 2
    /\ Len(result.Results) = 1

\* C5: when Process returns every worker has terminated and the returned
\* Results are exactly the Outcomes the workers emitted, in emission order;
\* nothing is left in the result channel.
C5_ReturnAfterDrain ==
    Done =>
        /\ \A w \in Workers : wpc[w] = "exit"
        /\ wg = 0
        /\ resultChan = <<>>
        /\ result.Results = emitted

C5_Witness ==
    /\ Done
    /\ workers = 2
    /\ Len(emitted) = 2

\* C6: at most W orchestrations are in flight and no repository is handed
\* to more than one worker.
C6_BoundedAndExclusive ==
    /\ Cardinality({w \in Workers : wpc[w] = "update"}) <= workers
    /\ \A r \in 1..Len(repos) : handed[r] <= 1
    /\ \A w1, w2 \in Workers :
          (w1 # w2 /\ wpc[w1] \in {"check", "update"}
                   /\ wpc[w2] \in {"check", "update"})
             => cur[w1] # cur[w2]

C6_Witness ==
    /\ workers = 2
    /\ wpc[1] = "update"
    /\ wpc[2] = "update"

\* The Outcome class the fate of repository r leads to
FateFailed(r) ==
    fate[r].detectErr
    \/ ((fate[r].HasComposer \/ fate[r].HasNPM) /\ fate[r].update.Error # NoError)
FateUpdatedOK(r) ==
    /\ ~fate[r].detectErr
    /\ fate[r].HasComposer \/ fate[r].HasNPM
    /\ fate[r].update.Error = NoError
    /\ fate[r].update.Updated

\* C7: without cancellation the counters of the returned aggregate are a
\* function of the per-repository outcomes alone, whatever the interleaving.
C7_CountersOrderIndependent ==
    (Done /\ ~cancelled) =>
        LET all == 1..Len(repos)
            nFailed == Cardinality({r \in all : FateFailed(r)})
            nUpdated == Cardinality({r \in all : FateUpdatedOK(r)})
        IN  /\ result.Total = Len(repos)
            /\ result.Failed = nFailed
            /\ result.Updated = nUpdated
            /\ result.Skipped = Len(repos) - nFailed - nUpdated
            /\ result.Successful = Len(repos) - nFailed

\* pool size 2, repository 1 fails its clone, repository 2 is updated, and
\* the update completes first
C7_Witness ==
    /\ Done /\ ~cancelled
    /\ workers = 2
    /\ Len(repos) = 2
    /\ fate[1] = FateCloneFail
    /\ fate[2] = FateUpdated
    /\ result.Results[1].Repository = 2
    /\ result.Total = 2 /\ result.Failed = 1 /\ result.Updated = 1

\* ---------------------------------------------------------- update claims
Returned == upc \in {"send", "collected"}

CallOps == {calls[k].op : k \in 1..Len(calls)}

CommitOps == {"git add", "git commit"}
PushOps == {"git push"}
PullRequestOps == {"PullRequests.List", "PullRequests.Create", "PullRequests.Edit"}

\* C8: once the temporary directory was created, it has been removed when
\* Update returns, whatever the exit path.
C8_WorkingCopyRemoved ==
    Returned =>
        /\ tmpDir # "present"
        /\ \A l \in Locks : wc[l] = Absent
        /\ ("git clone" \in CallOps) => (tmpDir = "removed")

C8_Witness ==
    /\ Returned
    /\ tmpDir = "removed"
    /\ ures.Error = "failed to create pull request"
    /\ pushed # {}

\* An update command of a plugin was run and exited nonzero
CommandFailed ==
    \E k \in 1..Len(pluginRuns) : pluginRuns[k].ran /\ ~pluginRuns[k].exitOK

\* C9: when a plugin's update command exits nonzero, the Outcome is failed
\* and no add/commit, push or pull-request call is made.
C9_CommandFailureIsFailure ==
    CommandFailed =>
        /\ ures.Error # NoError
        /\ ~ures.Success
        /\ ~ures.Updated
        /\ CallOps \cap (CommitOps \cup PushOps \cup PullRequestOps) = {}
        /\ pushed = {}
        /\ upc \in {"return", "send", "collected"}
        /\ (upc = "collected") => (uagg.Failed = 1 /\ uagg.Successful = 0)

C9_Witness ==
    /\ upc = "collected"
    /\ Len(pluginRuns) = 2
    /\ pluginRuns[1].exitOK
    /\ anyUpdated
    /\ pluginRuns[2].ran /\ ~pluginRuns[2].exitOK
    /\ ~cfg.DryRun

\* Detection succeeded and no enabled plugin detects applicability: each
\* capability flag is unset or its ecosystem is disabled in configuration
NoApplicablePlugin ==
    /\ upc # "detect"
    /\ ures.Error # "failed to detect dependencies"
    /\ ~repo.HasComposer \/ ~cfg.UpdateComposer
    /\ ~repo.HasNPM \/ ~cfg.UpdateNPM

SetupErrors ==
    {"failed to create temp directory", "failed to clone repository",
     "failed to create branch"}

\* C10 as claimed: with no applicable enabled plugin the Outcome is always
\* successful and unchanged, no plugin runs, nothing is pushed, no
\* pull-request call is made, and the pool counts it Skipped and Successful.
C10_Original ==
    (NoApplicablePlugin /\ Returned) =>
        /\ ures.Success /\ ~ures.Updated /\ ures.Error = NoError
        /\ pluginRuns = <<>>
        /\ CallOps \cap (PushOps \cup PullRequestOps) = {}
        /\ (upc = "collected") => (uagg.Skipped = 1 /\ uagg.Successful = 1)

\* C10 amended: with no applicable enabled plugin no plugin runs, nothing is
\* pushed and no pull-request call is made; the Outcome is successful and
\* unchanged, counted Skipped and Successful, unless creating the temporary
\* directory, the clone or the branch creation failed, which gives a failed
\* Outcome carrying that error.
C10_NoApplicablePlugin ==
    NoApplicablePlugin =>
        /\ pluginRuns = <<>>
        /\ CallOps \cap (CommitOps \cup PushOps \cup PullRequestOps) = {}
        /\ pushed = {}
        /\ ~ures.Updated
        /\ Returned =>
              \/ /\ ures.Success /\ ures.Error = NoError
                 /\ ures.ChangedFiles = <<>>
                 /\ (upc = "collected") =>
                       (uagg.Skipped = 1 /\ uagg.Successful = 1 /\ uagg.Failed = 0)
              \/ /\ ~ures.Success /\ ures.Error \in SetupErrors
                 /\ repo.HasComposer \/ repo.HasNPM
                 /\ (upc = "collected") => (uagg.Failed = 1)

C10_Witness ==
    /\ upc = "collected"
    /\ repo.HasComposer /\ ~cfg.UpdateComposer
    /\ repo.HasNPM /\ ~cfg.UpdateNPM
    /\ cfg.CreatePR
    /\ tmpDir = "removed"
    /\ ures.Success
    /\ uagg.Skipped = 1

\* ---------------------------------------------------------- update claims
BranchOps == {"git checkout"}

FailedSteps == {failed[k] : k \in 1..Len(failed)}

\* C11: in dry-run mode, when a plugin detected a change, Update returns a
\* successful Outcome with changed = true and makes no branch, commit, push
\* or pull-request call, in pull-request mode and in direct-push mode.
C11_DryRunMakesNoCall ==
    (cfg.DryRun /\ anyUpdated /\ failed = <<>> /\ Returned) =>
        /\ ures.Success /\ ures.Updated /\ ures.Error = NoError
        /\ CallOps \cap (BranchOps \cup CommitOps \cup PushOps \cup PullRequestOps) = {}

\* Open pull requests for the fixed head branch and its base
PairPRs(open) == {pr \in open : pr.Head = PRBranch /\ pr.Base = "main"}

\* C12: over sequential pull-request-mode runs at most one open pull request
\* exists for the fixed head branch and its base; a reconciliation that lists
\* an open pull request for the pair edits its title in place and makes no
\* create call, and a create call is made only when the listing returned
\* none.
C12_OnePullRequestPerPair ==
    /\ [](Cardinality(PairPRs(openPRs)) <= 1)
    /\ [][upc = "pr" =>
            LET found == PairPRs(openPRs)
                ops == {calls'[k].op : k \in (Len(calls) + 1)..Len(calls')}
                listed == "failed to list existing PRs" \notin
                              {failed'[k] : k \in 1..Len(failed')}
            IN  /\ "PullRequests.List" \in ops
                /\ (found # {} /\ listed) =>
                      /\ "PullRequests.Edit" \in ops
                      /\ "PullRequests.Create" \notin ops
                      /\ ures'.Success =>
                            \E pr \in found :
                               /\ openPRs' = (openPRs \ {pr}) \cup
                                                {[pr EXCEPT !.Title = PRTitle]}
                               /\ ures'.PRNumber = pr.Number
                /\ "PullRequests.Create" \in ops => (listed /\ found = {})
                /\ ~listed => openPRs' = openPRs
         ]_vars

C12_Witness ==
    /\ run = 2
    /\ upc = "collected"
    /\ ures.Success
    /\ "PullRequests.Edit" \in CallOps
    /\ pushed = {PRBranch}
    /\ PairPRs(openPRs) = {PullRequest(1, PRBranch, "main", PRTitle)}

\* Every update command of this run left its lockfile byte-identical
DependenciesCurrent ==
    \A k \in 1..Len(pluginRuns) : pluginRuns[k].same

C14_ComposerChangeOutcome ==
    (/\ cfg.CreatePR /\ ~cfg.DryRun /\ cfg.UpdateComposer
     /\ repo.HasComposer /\ ~repo.HasNPM
     /\ Returned /\ failed = <<>>
     /\ Len(pluginRuns) = 1
     /\ pluginRuns[1].ran /\ pluginRuns[1].exitOK /\ ~pluginRuns[1].same) =>
        /\ ures.Success /\ ures.Updated /\ ures.Error = NoError
        /\ ures.ChangedFiles = <<"composer.lock">>
        /\ ures.PRURL # ""
        /\ \E pr \in PairPRs(openPRs) :
              pr.Number = ures.PRNumber /\ pr.HTMLURL = ures.PRURL
        /\ ures.Branch = PRBranch

\* --------------------------------------------------- fingerprinting claims
Called == hout # <<>>

Content(f) == f.exists /\ f.readable

\* The fingerprint of the contract: the sentinel "absent" for a missing
\* file, else the digest fileHash returns
Fingerprint(f) == IF ~f.exists THEN <<"absent">> ELSE fileHash(f).hash

\* C15: for every pair of different file contents, of any length and also of
\* equal length, the fingerprint fileHash computes before the modification
\* differs from the one it computes after it.
C15_DifferentContentsDifferentHash ==
    (Called /\ Content(hin.before) /\ Content(hin.after)
            /\ hin.before.data # hin.after.data) =>
        hout[1].original.hash # hout[1].new.hash

\* C16: two calls of fileHash on an unmodified file return equal
\* fingerprints, and a plugin whose update command leaves the lockfile
\* byte-identical never reports changed = true.
C16_UnmodifiedNeverChanged ==
    (Called /\ hin.before = hin.after) =>
        /\ hout[1].original = hout[1].new
        /\ ~hout[1].res.updated
        /\ hout[1].res.changedFiles = <<>>

C16_Witness ==
    /\ Called
    /\ hin.before = hin.after
    /\ Content(hin.before)
    /\ Len(hin.before.data) > 20
    /\ hin.name = "npm"
    /\ hin.cmdOK
    /\ hout[1].res.err = NoError
    /\ hout[1].res.calls # <<>>

\* C17: when the update command exits zero, the plugin reports changed = true
\* with the lockfile in changedFiles exactly when the fingerprint before
\* differs from the fingerprint after, a missing file counting as "absent":
\* absent to present, present to different content, present to absent.
C17_ChangedIffFingerprintDiffers ==
    (Called /\ hin.cmdOK /\ hin.before # Unreadable /\ hin.after # Unreadable) =>
        /\ hout[1].res.err = NoError
        /\ hout[1].res.updated <=> (Fingerprint(hin.before) # Fingerprint(hin.after))
        /\ hout[1].res.changedFiles =
              IF Fingerprint(hin.before) # Fingerprint(hin.after)
              THEN <<PluginLock(hin.name)>> ELSE <<>>

\* ------------------------------------------------- update claims, continued
CountCalls(op) == Cardinality({k \in 1..Len(calls) : calls[k].op = op})

\* C18: when the clone fails, Update returns a failed Outcome carrying the
\* clone error, the clone was attempted exactly once, and no branch
\* creation, plugin, commit, push or pull-request step is executed.
C18_CloneFailureStops ==
    ("git clone" \in FailedSteps) =>
        /\ CountCalls("git clone") = 1
        /\ calls[Len(calls)].op \in {"git clone", "os.RemoveAll"}
        /\ ures.Error = "failed to clone repository"
        /\ ~ures.Success /\ ~ures.Updated
        /\ pluginRuns = <<>>
        /\ CallOps \cap (BranchOps \cup CommitOps \cup PushOps \cup PullRequestOps) = {}
        /\ pushed = {}
        /\ upc \in {"return", "send", "collected"}
        /\ (upc = "collected") => (uagg.Failed = 1 /\ uagg.Successful = 0)

C18_Witness ==
    /\ upc = "collected"
    /\ failed = <<"git clone">>
    /\ cfg.CreatePR
    /\ repo.HasComposer /\ cfg.UpdateComposer
    /\ tmpDir = "removed"

\* Staging found nothing to commit: commitAndPush ended after `git status`
\* or `git commit` without an error and without a push
NothingToCommit ==
    /\ "git status" \in CallOps
    /\ "git push" \notin CallOps
    /\ failed = <<>>

\* C19: when the plugins reported a change but staging yields nothing to
\* commit, the Outcome is successful with changed = false and no error.
C19_NothingToCommitIsNoop ==
    (Returned /\ anyUpdated /\ NothingToCommit) =>
        /\ ures.Success
        /\ ~ures.Updated
        /\ ures.Error = NoError

\* C20: a failure to attach the labels after the pull request was created
\* does not make the Outcome a failure: the pull request is returned without
\* error and Update returns Success and Updated with its number and URL.
C20_LabelFailureNotFatal ==
    ("failed to add labels" \in FailedSteps) =>
        /\ calls[Len(calls)].op \in {"Issues.AddLabelsToIssue", "os.RemoveAll"}
        /\ "PullRequests.Create" \in CallOps
        /\ ures.Success /\ ures.Updated /\ ures.Error = NoError
        /\ ures.PRURL # ""
        /\ \E pr \in PairPRs(openPRs) :
              pr.Number = ures.PRNumber /\ pr.HTMLURL = ures.PRURL
        /\ (upc = "collected") => (uagg.Updated = 1 /\ uagg.Failed = 0)

C20_Witness ==
    /\ upc = "collected"
    /\ failed = <<"failed to add labels">>
    /\ cfg.Labels # <<>>
    /\ ures.PRNumber # 0
    /\ uagg.Updated = 1


\* The branch the configuration and the repository call for
ExpectedBranch ==
    IF cfg.CreatePR THEN "updati/dependencies"
    ELSE IF cfg.BaseBranch # "" THEN cfg.BaseBranch
    ELSE repo.DefaultRef

CloneSucceeded == "git clone" \in CallOps /\ "git clone" \notin FailedSteps

\* C21: the target branch recorded on the Outcome and used for the push is
\* the fixed pull-request branch in pull-request mode, on every run;
\* otherwise the configured base branch when non-empty; otherwise the
\* repository's default branch.
C21_TargetBranch ==
    /\ CloneSucceeded => ures.Branch = ExpectedBranch
    /\ \A k \in 1..Len(calls) :
          /\ calls[k].op = "git push" =>
                (calls[k].a = "-f" /\ calls[k].b = ExpectedBranch)
          /\ calls[k].op = "git checkout" =>
                (cfg.CreatePR /\ calls[k].b = "updati/dependencies")
    /\ pushed \subseteq {ExpectedBranch}

C21_Witness ==
    /\ run = 2
    /\ upc = "collected"
    /\ ~cfg.CreatePR
    /\ cfg.BaseBranch = "develop"
    /\ repo.DefaultRef = "main"
    /\ ures.Branch = "develop"
    /\ pushed = {"develop"}

\* C22: in pull-request mode the pull request is opened against the
\* configured base branch: the base passed to pull-request reconciliation
\* equals cfg.BaseBranch.
C22_PullRequestBaseIsConfigured ==
    (cfg.CreatePR /\ cfg.BaseBranch # "") =>
        /\ \A k \in 1..Len(calls) :
              calls[k].op \in {"PullRequests.List", "PullRequests.Create"} =>
                 calls[k].b = cfg.BaseBranch
        /\ (Returned /\ ures.PRNumber # 0) =>
              \E pr \in openPRs :
                 pr.Number = ures.PRNumber /\ pr.Base = cfg.BaseBranch

\* Position in the call log of the first call of an operation, 0 if none
FirstCall(op) ==
    IF op \in CallOps
    THEN CHOOSE k \in 1..Len(calls) :
            calls[k].op = op /\ \A j \in 1..(k - 1) : calls[j].op # op
    ELSE 0

\* C23: in direct-push mode Update makes no pull-request list, create or
\* edit call and never creates or resets a local branch; a detected change
\* is committed and force-pushed to the target branch, unless staging finds
\* nothing to commit, and the Outcome's PR number and URL stay empty.
C23_DirectPush ==
    ~cfg.CreatePR =>
        /\ CallOps \cap (PullRequestOps \cup BranchOps
                            \cup {"Issues.AddLabelsToIssue"}) = {}
        /\ ures.PRNumber = 0 /\ ures.PRURL = ""
        /\ "git push" \in CallOps =>
              /\ FirstCall("git add") > 0
              /\ FirstCall("git add") < FirstCall("git commit")
              /\ FirstCall("git commit") < FirstCall("git push")
              /\ CountCalls("git push") = 1
        /\ (Returned /\ anyUpdated /\ ~cfg.DryRun /\ failed = <<>>) =>
              /\ ures.Success /\ ures.Updated /\ ures.Error = NoError
              /\ "git add" \in CallOps
              /\ \/ /\ pushed = {ExpectedBranch}
                    /\ calls[FirstCall("git push")] =
                          Call("git push", "-f", ExpectedBranch)
                 \/ NothingToCommit

C23_Witness ==
    /\ upc = "collected"
    /\ ~cfg.CreatePR /\ ~cfg.DryRun
    /\ cfg.BaseBranch = ""
    /\ failed = <<>>
    /\ pushed = {"main"}
    /\ ures.Updated
    /\ ures.ChangedFiles = <<"composer.lock", "package-lock.json">>

\* The statement of C23 without the nothing-to-commit exception: every
\* direct-push run that detected a change and failed nowhere has pushed
C23_Original ==
    (~cfg.CreatePR /\ Returned /\ anyUpdated /\ ~cfg.DryRun /\ failed = <<>>) =>
        pushed = {ExpectedBranch}

\* The runtime versions the plugin knows (minor numbers of PHP 8) that a
\* constraint text mentions
KnownMinors == 2..5

MinorText(v) == <<"8", ".", <<"2", "3", "4", "5">>[v - 1]>>

Mentioned(c) == {v \in KnownMinors : Contains(c, MinorText(v))}

HighestMentioned(c) ==
    CHOOSE v \in Mentioned(c) : \A u \in Mentioned(c) : u <= v

Executable(v) ==
    CASE v = 2 -> "/usr/bin/php82"
      [] v = 3 -> "/usr/bin/php83"
      [] v = 4 -> "/usr/bin/php84"
      [] v = 5 -> "/usr/bin/php85"

\* C24: the Composer plugin selects the executable of the highest known
\* runtime version (8.2 to 8.5) that the declared constraint mentions, and
\* the default /usr/bin/php when nothing is declared or nothing matches.
C24_HighestMentionedVersion ==
    pout # <<>> =>
        pout[1] = IF pin.kind # "constraint" \/ Mentioned(pin.php) = {}
                  THEN "/usr/bin/php"
                  ELSE Executable(HighestMentioned(pin.php))

\* C25: ListRepositories terminates and, when it returns without error,
\* has appended every repository of the owner exactly once, whether the
\* user listing is accepted or the listing falls back to the organization.
C25_ListTerminatesExactlyOnce ==
    /\ <>(lpc = "returned")
    /\ []((lpc = "returned" /\ lerr = NoError) =>
             \A r \in 1..ln : allRepos[r] = 1)

\* C26: within one Update invocation a force-push happens only after the
\* plugins ran and reported a change, and a pull-request list, create or
\* edit call happens only after a successful force-push of the target
\* branch in the same invocation.
C26_RemoteStepsOrdered ==
    /\ "git push" \in CallOps =>
          /\ anyUpdated
          /\ pidx > Len(Plugins)
          /\ \E k \in 1..Len(pluginRuns) : pluginRuns[k].updated
    /\ \A k \in 1..Len(calls) :
          calls[k].op \in PullRequestOps =>
             /\ pushed = {ures.Branch}
             /\ "git push" \notin FailedSteps
             /\ \E j \in 1..(k - 1) :
                   calls[j] = Call("git push", "-f", ures.Branch)

\* The plugins that apply to the repository, Composer before npm
ApplicablePlugins ==
    (IF cfg.UpdateComposer /\ repo.HasComposer THEN <<"composer">> ELSE <<>>)
    \o (IF cfg.UpdateNPM /\ repo.HasNPM THEN <<"npm">> ELSE <<>>)

RunNames == [k \in 1..Len(pluginRuns) |-> pluginRuns[k].name]

IsPrefix(s, t) == Len(s) <= Len(t) /\ s = SubSeq(t, 1, Len(s))

\* The lockfiles of the plugin runs from k on that reported a change
RECURSIVE FilesFrom(_)
FilesFrom(k) ==
    IF k > Len(pluginRuns) THEN <<>>
    ELSE (IF pluginRuns[k].updated
          THEN <<IF pluginRuns[k].name = "composer" THEN "composer.lock"
                 ELSE "package-lock.json">>
          ELSE <<>>) \o FilesFrom(k + 1)

\* C27: runPlugins executes the applicable plugins (enabled and detected) in
\* registry order, Composer then npm, each at most once; its changed flag is
\* the OR of the plugins' changed flags and changedFiles the concatenation,
\* in that order, of the files of the plugins that changed something.
C27_RegistryOrder ==
    /\ IsPrefix(RunNames, ApplicablePlugins)
    /\ ("git clone" \in CallOps /\ FailedSteps = {}
           /\ upc \in {"commit", "pr", "return", "send", "collected"}) =>
          /\ RunNames = ApplicablePlugins
          /\ anyUpdated = (\E k \in 1..Len(pluginRuns) : pluginRuns[k].updated)
          /\ allChangedFiles = FilesFrom(1)
          /\ ures.ChangedFiles = allChangedFiles

C27_Witness ==
    /\ upc = "collected"
    /\ cfg.DryRun
    /\ RunNames = <<"composer", "npm">>
    /\ ~pluginRuns[1].updated
    /\ pluginRuns[2].updated
    /\ anyUpdated
    /\ ures.ChangedFiles = <<"package-lock.json">>

PluginErrors ==
    {"composer update failed", "npm update failed",
     "failed to hash composer.lock", "failed to hash package-lock.json",
     "failed to hash composer.lock after update",
     "failed to hash package-lock.json after update"}

PluginFailed == FailedSteps \cap PluginErrors # {}

ComposerErrors ==
    {"composer update failed", "failed to hash composer.lock",
     "failed to hash composer.lock after update"}

FailedPlugin ==
    IF FailedSteps \cap ComposerErrors # {} THEN "composer" ELSE "npm"

\* C28: when a plugin fails, no later plugin is executed for the
\* repository and the failed Outcome gives no partial credit: Updated is
\* false and ChangedFiles is empty even if an earlier plugin had changed its
\* lockfile; nothing is committed, pushed or proposed.
C28_NoPartialCredit ==
    PluginFailed =>
        /\ pluginRuns # <<>>
        /\ pluginRuns[Len(pluginRuns)].name = FailedPlugin
        /\ ~pluginRuns[Len(pluginRuns)].updated
        /\ Len(failed) = 1
        /\ upc \in {"return", "send", "collected"}
        /\ ~ures.Success
        /\ ~ures.Updated
        /\ ures.ChangedFiles = <<>>
        /\ ures.Error # NoError
        /\ ures.PRNumber = 0
        /\ CallOps \cap (CommitOps \cup PushOps \cup PullRequestOps) = {}
        /\ pushed = {}
        /\ (RunNames = <<"composer">> /\ cfg.UpdateNPM /\ repo.HasNPM) =>
              "npm update" \notin CallOps

C28_Witness ==
    /\ upc = "collected"
    /\ RunNames = <<"composer", "npm">>
    /\ pluginRuns[1].updated
    /\ failed = <<"npm update failed">>
    /\ ~ures.Updated
    /\ ures.ChangedFiles = <<>>
    /\ uagg.Failed = 1

\* A failing Composer plugin with npm applicable: npm is never run
C28_WitnessSkipped ==
    /\ upc = "collected"
    /\ cfg.UpdateNPM /\ repo.HasNPM
    /\ failed = <<"composer update failed">>
    /\ RunNames = <<"composer">>

\* C29: when listing succeeds and at least one repository matches, Run
\* returns an error if and only if the aggregate's Failed count is greater
\* than zero; with zero matching repositories it returns no error and the
\* pool is never started.
C29_RunErrorIffFailed ==
    /\ (rpc = "returned" /\ rmatched >= 1) =>
          /\ Done
          /\ result.Total = rmatched
          /\ (rerr # NoError) <=> (result.Failed > 0)
    /\ (rmatched = 0 /\ rerr # "failed to list repositories") =>
          /\ rerr = NoError
          /\ mpc = "idle" /\ dpc = "idle" /\ wg = 0
          /\ started = {} /\ emitted = <<>>

C29_Witness ==
    /\ rpc = "returned"
    /\ rmatched = 2
    /\ result.Failed = 1
    /\ result.Updated = 1
    /\ rerr = "repositories failed to update"

\* No repository matches: Run has returned nil and no pool exists
C29_WitnessNoMatch ==
    /\ rpc = "returned"
    /\ rmatched = 0
    /\ rerr = NoError
    /\ mpc = "idle"

\* A run with a skipped repository and no failure returns nil
C29_WitnessSkipped ==
    /\ rpc = "returned"
    /\ result.Skipped > 0
    /\ result.Failed = 0
    /\ rerr = NoError

\* A worker holds a repository and will send its Outcome
Sending(w) == wpc[w] \in {"check", "update"}

\* C30: without cancellation Process terminates for every worker count and
\* every finite input list: the dispatcher never blocks on the queue, no
\* worker blocks when sending an Outcome, the queue is closed once, after
\* the last repository was enqueued, and the result channel is closed
\* once, after all workers returned.
C30_ProcessTerminates ==
    /\ <>Done
    /\ []((dpc = "run" /\ di <= Len(repos)) => Len(repoChan) < Cap)
    /\ [](\A w \in Workers : Sending(w) => Len(resultChan) < Cap)
    /\ [][repoClosed' # repoClosed =>
             ~repoClosed /\ di > Len(repos) /\ dpc' = "closed"]_vars
    /\ [][resultClosed' # resultClosed =>
             ~resultClosed /\ wg = 0 /\ \A w \in Workers : wpc[w] = "exit"]_vars
    /\ [](Done => (repoClosed /\ resultClosed /\ repoChan = <<>>
                     /\ Len(result.Results) = Len(repos)))

C30_Witness ==
    /\ Done
    /\ ~cancelled
    /\ Len(repos) = 1
    /\ workers = 2
    /\ repoClosed /\ resultClosed
    /\ wpc = <<"exit", "exit">>
    /\ Len(emitted) = 1

\* C31: every Outcome returned by Update or built by the worker is
\* well-formed: exactly one of Success and Error holds, Updated implies
\* Success, and a pull-request number or URL implies Updated, pull-request
\* mode and no dry run.
C31_OutcomeWellFormed ==
    upc \in {"return", "send", "collected"} =>
        /\ ures.Success <=> (ures.Error = NoError)
        /\ ures.Updated => ures.Success
        /\ (ures.PRNumber # 0 \/ ures.PRURL # "") =>
              (ures.Updated /\ cfg.CreatePR /\ ~cfg.DryRun)

C31_Witness ==
    /\ upc = "send"
    /\ ures.Success /\ ures.Updated
    /\ ures.Error = NoError
    /\ ures.PRNumber # 0 /\ ures.PRURL # ""
    /\ cfg.CreatePR /\ ~cfg.DryRun

\* A failed Outcome: Error set, neither Success nor Updated
C31_WitnessFailed ==
    /\ upc = "send"
    /\ ures.Error # NoError
    /\ ~ures.Success /\ ~ures.Updated
    /\ "PullRequests.List" \in CallOps

\* C32: in every state of the collector loop of Process, cancelled or not,
\* Successful = Updated + Skipped, len(Results) = Successful + Failed and
\* len(Results) <= Total.
C32_AggregateInvariant ==
    mpc \in {"collect", "done"} =>
        /\ result.Total = Len(repos)
        /\ result.Successful = result.Updated + result.Skipped
        /\ Len(result.Results) = result.Successful + result.Failed
        /\ Len(result.Results) <= result.Total

\* The loop has counted one skipped Outcome, another waits in the channel,
\* and the context is cancelled
C32_Witness ==
    /\ mpc = "collect"
    /\ cancelled
    /\ result.Skipped = 1
    /\ result.Successful = 1
    /\ Len(result.Results) = 1
    /\ resultChan # <<>>

ReconcileErrors ==
    {"failed to list existing PRs", "failed to update existing PR",
     "failed to create pull request"}

\* Reconciliation failed in a run that had force-pushed the target branch
ReconcileFailedAfterPush ==
    /\ FailedSteps \cap ReconcileErrors # {}
    /\ "git push" \in CallOps
    /\ "git push" \notin FailedSteps

\* C33: when pull-request reconciliation (list, edit or create) fails after
\* the target branch was force-pushed, Update returns a failed Outcome with
\* Updated = false and no PR number or URL, and the push is not undone: the
\* remote target branch keeps the pushed commit.
C33_FailedAfterPushKeepsPush ==
    ReconcileFailedAfterPush =>
        /\ upc \in {"return", "send", "collected"}
        /\ ~ures.Success
        /\ ~ures.Updated
        /\ ures.Error = "failed to create pull request"
        /\ ures.PRNumber = 0 /\ ures.PRURL = ""
        /\ pushed = {"updati/dependencies"}
        /\ CountCalls("git push") = 1
        /\ \A k \in 1..Len(calls) :
              k > FirstCall("git push") =>
                 calls[k].op \in PullRequestOps \cup {"os.RemoveAll"}
        /\ upc = "collected" => uagg.Failed = 1

C33_Witness ==
    /\ upc = "collected"
    /\ failed = <<"failed to update existing PR">>
    /\ pushed = {"updati/dependencies"}
    /\ ~ures.Updated
    /\ ures.Error # NoError
    /\ uagg.Failed = 1

\* The branch named in the clone command of this run
ClonedBranch == calls[FirstCall("git clone")].b

\* C34: in pull-request mode the base passed to reconciliation is always
\* the branch that was cloned (the default branch) and the head is always
\* the target branch that was force-pushed, whatever base branch is
\* configured.
C34_BaseIsClonedHeadIsPushed ==
    \A k \in 1..Len(calls) :
       calls[k].op \in {"PullRequests.List", "PullRequests.Create"} =>
          /\ cfg.CreatePR
          /\ calls[k].b = ClonedBranch
          /\ calls[k].b = repo.DefaultRef
          /\ calls[k].a = ures.Branch
          /\ \E j \in 1..(k - 1) : calls[j] = Call("git checkout", "-B", calls[k].a)
          /\ \E j \in 1..(k - 1) : calls[j] = Call("git push", "-f", calls[k].a)
          /\ calls[k].a \in pushed

====
